---- MODULE Spec2Model ----
(***************************************************************************)
(* Model of the .base view-file pipeline of mdbase-cli: the parser         *)
(* (base/parser.ts), the expression translator, the view executor and the  *)
(* column resolver (base/executor.ts), and the output formatter            *)
(* (base/formatter.ts).                                                    *)
(*                                                                         *)
(* JavaScript strings that the code inspects or builds (expressions,      *)
(* property ids, view names, paths, messages) are sequences of             *)
(* one-character strings, so that prefix tests, slices, splits, case       *)
(* folding and the regular expression rewrites are computed character by   *)
(* character.  Objects are functions on their keys; an `undefined` member  *)
(* is a key outside DOMAIN.                                                *)
(***************************************************************************)
EXTENDS Integers, Sequences, FiniteSets, TLC

VARIABLES
    baseFile,   \* executeBase: the parsed BaseFile argument
    opts,       \* executeBase: the ExecuteOptions argument
    pc,         \* executeBase: position of the async function
    views,      \* executeBase: local `views`
    idx,        \* executeBase: position of the for-of loop over `views`
    results,    \* executeBase: local `results`
    queries,    \* the requests collection.query has received, in order
    responses,  \* what collection.query answered, in order
    outcome,    \* what the promise of executeBase settled to
    format,     \* printResults: the `format` argument, "unread" before the call
    stdout,     \* printResults: the lines written with console.log, in order
    fn,         \* pure-function harness: the function under evaluation
    arg,        \* pure-function harness: its input
    ret,        \* pure-function harness: the values it returned, in order
    runArgs,    \* base run: the command line and what its collaborators answer
    runPc,      \* base run: position of the action callback
    exitCode,   \* base run: the code the process ended with, -1 while it runs
    runStdout,  \* base run: what console.log wrote, in order
    runStderr,  \* base run: what console.error wrote, in order
    registryFile,  \* registry: the `collections` array of the registry file
    regClock,      \* registry: the time, one tick for every operation begun
    regProcs,      \* registry: for each caller, the operation it is inside of
    regLast,       \* registry: the operation that settled last and its outcome
    cliArgs,    \* cli: the command line and the registry it finds
    cliPc,      \* cli: position between the preAction hook and the action
    cliExit,    \* cli: the code process.exit was called with, -1 before
    cliStdout,  \* cli: what console.log wrote, in order
    cliStderr,  \* cli: what console.error wrote, in order
    cwd,        \* cli: the working directory of the process
    actionCwd,  \* cli: <<>> until the action runs, then the directory it ran in
    impArgs,    \* import: the command line, the file and the collection
    impPc,      \* import: position of the action callback
    impIdx,     \* import: the loop variable i, counted from 1
    impResult,  \* import: the ImportResult, <<>> before it is made
    impCreates, \* import: the calls of collection.create and their answers
    impExit,    \* import: the code the process ended with, -1 while it runs
    impStdout,  \* import: what console.log wrote, in order
    impStderr,  \* import: what console.error wrote, in order
    watchArgs,      \* watch: the options and what Collection.open answered
    watchPc,        \* watch: "start", "watching", "closing" or "exited"
    watchNow,       \* watch: the time in ms since the command started
    debounceTimer,  \* watch: null (0) or the timer handleChange set last
    watchTimers,    \* watch: the timers that are set and have not fired
    watchCallbacks, \* watch: the timer callbacks that are waiting in an await
    watchEvents,    \* watch: history of the calls of handleChange
    watchSignals,   \* watch: history of the SIGINT and SIGTERM signals
    watchOut,       \* watch: what console.log and console.error wrote
    watchExit       \* watch: the code the process ended with, -1 while it runs

vars == <<baseFile, opts, pc, views, idx, results, queries, responses, outcome,
          format, stdout, fn, arg, ret,
          runArgs, runPc, exitCode, runStdout, runStderr,
          registryFile, regClock, regProcs, regLast,
          cliArgs, cliPc, cliExit, cliStdout, cliStderr, cwd, actionCwd,
          impArgs, impPc, impIdx, impResult, impCreates, impExit, impStdout, impStderr,
          watchArgs, watchPc, watchNow, debounceTimer, watchTimers, watchCallbacks,
          watchEvents, watchSignals, watchOut, watchExit>>

execVars == <<baseFile, opts, pc, views, idx, results, queries, responses, outcome,
              format, stdout>>

outVars == <<format, stdout>>

pureVars == <<fn, arg, ret>>

runVars == <<runArgs, runPc, exitCode, runStdout, runStderr>>

\* The state of the commands other than the executor and the harness.
regVars == <<registryFile, regClock, regProcs, regLast>>

cliVars == <<cliArgs, cliPc, cliExit, cliStdout, cliStderr, cwd, actionCwd>>

impVars == <<impArgs, impPc, impIdx, impResult, impCreates, impExit, impStdout, impStderr>>

watchVars == <<watchArgs, watchPc, watchNow, debounceTimer, watchTimers, watchCallbacks,
               watchEvents, watchSignals, watchOut, watchExit>>

sideVars == <<runVars, regVars, cliVars, impVars, watchVars>>

(***************************************************************************)
(* Strings                                                                 *)
(***************************************************************************)

S_note == <<"n", "o", "t", "e", ".">>

S_fileCall == <<"f", "i", "l", "e", "(">>

S_iconCall == <<"i", "c", "o", "n", "(">>

S_asFile == <<".", "a", "s", "F", "i", "l", "e", "(", ")">>

S_formula == <<"f", "o", "r", "m", "u", "l", "a", ".">>

S_type == <<"t", "y", "p", "e">>

S_true == <<"t", "r", "u", "e">>

S_asc == <<"a", "s", "c">>

S_empty == <<>>

UpperCase == <<"A", "B", "C", "D", "E", "F", "G", "H", "I", "J", "K", "L", "M",
               "N", "O", "P", "Q", "R", "S", "T", "U", "V", "W", "X", "Y", "Z">>

LowerCase == <<"a", "b", "c", "d", "e", "f", "g", "h", "i", "j", "k", "l", "m",
               "n", "o", "p", "q", "r", "s", "t", "u", "v", "w", "x", "y", "z">>

Digits == <<"0", "1", "2", "3", "4", "5", "6", "7", "8", "9">>

Range(s) == {s[i] : i \in DOMAIN s}

\* The regular expression class \w.
WordChars == Range(UpperCase) \cup Range(LowerCase) \cup Range(Digits) \cup {"_"}

\* String.prototype.toLowerCase, on the letters the model uses.
ToLowerChar(c) ==
    IF c \in Range(UpperCase)
    THEN LowerCase[CHOOSE i \in DOMAIN UpperCase : UpperCase[i] = c]
    ELSE c

toLowerCase(s) == [i \in DOMAIN s |-> ToLowerChar(s[i])]

\* String.prototype.startsWith
startsWith(s, p) == Len(s) >= Len(p) /\ SubSeq(s, 1, Len(p)) = p

\* String.prototype.slice(n), for 0 <= n
slice(s, n) == SubSeq(s, n + 1, Len(s))

\* The literal text p occurs in s at (1-based) position i.
OccursAt(s, i, p) == i + Len(p) - 1 <= Len(s) /\ SubSeq(s, i, i + Len(p) - 1) = p

\* The assertion \b before position i, when s[i] is a word character.
WordStartsAt(s, i) == i = 1 \/ s[i - 1] \notin WordChars

RECURSIVE Flatten(_)
\* Concatenation of a sequence of strings.
Flatten(ss) == IF ss = <<>> THEN <<>> ELSE Head(ss) \o Flatten(Tail(ss))

RECURSIVE join(_, _)
\* Array.prototype.join
join(ss, sep) ==
    IF ss = <<>> THEN <<>>
    ELSE IF Len(ss) = 1 THEN ss[1]
    ELSE ss[1] \o sep \o join(Tail(ss), sep)

\* All sequences over S of length lo..hi.
SeqsOf(S, lo, hi) == UNION {[1..n -> S] : n \in lo..hi}

(***************************************************************************)
(* normalizePropertyId  (executor.ts)                                      *)
(***************************************************************************)

\* A variant that slices without testing the prefix.
normalizePropertyId_noTest(propId) == slice(propId, Len(S_note))

normalizePropertyId(propId) ==
    IF startsWith(propId, S_note) THEN slice(propId, Len(S_note)) ELSE propId

(***************************************************************************)
(* translateExpression  (executor.ts)                                      *)
(***************************************************************************)

RECURSIVE stripNote(_, _)
\* expr.replace(/\bnote\./g, ""), scanning from position i.
stripNote(s, i) ==
    IF i > Len(s) THEN <<>>
    ELSE IF OccursAt(s, i, S_note) /\ WordStartsAt(s, i)
         THEN stripNote(s, i + Len(S_note))
         ELSE <<s[i]>> \o stripNote(s, i + 1)

\* Position of the first ")" at or after position i of s, 0 when there is none.
FirstClose(s, i) ==
    IF \E j \in i..Len(s) : s[j] = ")"
    THEN CHOOSE j \in i..Len(s) : s[j] = ")" /\ \A k \in i..(j - 1) : s[k] # ")"
    ELSE 0

\* /\b<call>([^)]+)\)/ matches at position i of s.
CallMatchesAt(s, i, call) ==
    /\ OccursAt(s, i, call)
    /\ WordStartsAt(s, i)
    /\ FirstClose(s, i + Len(call)) > i + Len(call)

RECURSIVE replaceCall(_, _, _, _)
\* s.replace(/\b<call>([^)]+)\)/g, "$1" + suffix), scanning from position i.
replaceCall(s, i, call, suffix) ==
    IF i > Len(s) THEN <<>>
    ELSE IF CallMatchesAt(s, i, call)
         THEN LET close == FirstClose(s, i + Len(call))
              IN  SubSeq(s, i + Len(call), close - 1) \o suffix
                      \o replaceCall(s, close + 1, call, suffix)
         ELSE <<s[i]>> \o replaceCall(s, i + 1, call, suffix)

\* A variant that also drops the blanks of the expression.
translateExpression_dropBlanks(expr) ==
    LET noNote == stripNote(expr, 1)
        asFile == replaceCall(noNote, 1, S_fileCall, S_asFile)
    IN  SelectSeq(replaceCall(asFile, 1, S_iconCall, S_empty), LAMBDA c : c # " ")

translateExpression(expr) ==
    LET noNote == stripNote(expr, 1)
        asFile == replaceCall(noNote, 1, S_fileCall, S_asFile)
    IN  replaceCall(asFile, 1, S_iconCall, S_empty)

(***************************************************************************)
(* FilterExpression and translateFilter  (parser.ts, executor.ts)          *)
(*                                                                         *)
(* A FilterExpression is a string, [str |-> chars], or a BaseFilter        *)
(* object, [obj |-> o] with DOMAIN o a subset of {"and", "or", "not"} and  *)
(* each member an array of FilterExpression.  A where clause is a string,  *)
(* [str |-> chars], or one of [and |-> array], [or |-> array],             *)
(* [not |-> clause].                                                       *)
(***************************************************************************)

Leaf(chars) == [str |-> chars]

And(items) == [obj |-> [k \in {"and"} |-> items]]

Or(items) == [obj |-> [k \in {"or"} |-> items]]

Not(items) == [obj |-> [k \in {"not"} |-> items]]

IsString(filter) == "str" \in DOMAIN filter

RECURSIVE translateFilter_firstOnly(_)
\* A variant whose `not` branch keeps only the first item.
translateFilter_firstOnly(filter) ==
    IF IsString(filter) THEN [str |-> translateExpression(filter.str)]
    ELSE IF "and" \in DOMAIN filter.obj
         THEN [and |-> [i \in DOMAIN filter.obj["and"] |->
                          translateFilter_firstOnly(filter.obj["and"][i])]]
    ELSE IF "or" \in DOMAIN filter.obj
         THEN [or |-> [i \in DOMAIN filter.obj["or"] |->
                          translateFilter_firstOnly(filter.obj["or"][i])]]
    ELSE IF "not" \in DOMAIN filter.obj
         THEN LET items == [i \in DOMAIN filter.obj["not"] |->
                              translateFilter_firstOnly(filter.obj["not"][i])]
              IN  IF Len(items) >= 1 THEN [not |-> items[1]]
                  ELSE [not |-> [and |-> items]]
    ELSE [str |-> S_true]

RECURSIVE translateFilter(_)
translateFilter(filter) ==
    IF IsString(filter) THEN [str |-> translateExpression(filter.str)]
    ELSE IF "and" \in DOMAIN filter.obj
         THEN [and |-> [i \in DOMAIN filter.obj["and"] |->
                          translateFilter(filter.obj["and"][i])]]
    ELSE IF "or" \in DOMAIN filter.obj
         THEN [or |-> [i \in DOMAIN filter.obj["or"] |->
                          translateFilter(filter.obj["or"][i])]]
    ELSE IF "not" \in DOMAIN filter.obj
         THEN LET items == [i \in DOMAIN filter.obj["not"] |->
                              translateFilter(filter.obj["not"][i])]
              IN  IF Len(items) = 1 THEN [not |-> items[1]]
                  ELSE [not |-> [and |-> items]]
    ELSE [str |-> S_true]

(***************************************************************************)
(* Objects                                                                 *)
(*                                                                         *)
(* A BaseFile, a BaseView, the ExecuteOptions and a query request are      *)
(* functions on the keys they carry.  A Record<string, T> whose key order  *)
(* the code observes (formulas, properties, front matter) is a sequence of *)
(* entries [k |-> key, v |-> value] with distinct keys, in insertion       *)
(* order, as Object.entries lists them.                                    *)
(***************************************************************************)

NullValue == [null |-> TRUE]

Has(o, k) == k \in DOMAIN o

\* o[k] != null
NotNullish(o, k) == Has(o, k) /\ o[k] # NullValue

\* A null where a Record<string, T> is expected, kept apart from every
\* sequence of entries.
NullRecord == <<NullValue>>

\* if (o[k]), for a member that is a Record, null or undefined.
RecordGiven(o, k) == Has(o, k) /\ o[k] # NullRecord

Keys(entries) == [i \in DOMAIN entries |-> entries[i].k]

\* obj[k] = v on an object kept as a sequence of entries.
SetEntry(entries, k, v) ==
    IF \E i \in DOMAIN entries : entries[i].k = k
    THEN [i \in DOMAIN entries |-> IF entries[i].k = k THEN [k |-> k, v |-> v] ELSE entries[i]]
    ELSE Append(entries, [k |-> k, v |-> v])

\* Set.prototype.add on a Set kept as the sequence of its members in
\* insertion order.
SetAdd(members, x) == IF x \in Range(members) THEN members ELSE Append(members, x)

RECURSIVE SetAddAll(_, _)
SetAddAll(members, xs) ==
    IF xs = <<>> THEN members ELSE SetAddAll(SetAdd(members, Head(xs)), Tail(xs))

\* f with key k bound to v when `present`, f otherwise.
WithKey(f, present, k, v) == IF present THEN (k :> v) @@ f ELSE f

(***************************************************************************)
(* executeView, first half: the request  (executor.ts)                     *)
(***************************************************************************)

\* A variant that sends only the first of two filters.
buildWhere_firstOnly(file, view) ==
    LET parts == (IF NotNullish(file, "filters") THEN <<file.filters>> ELSE <<>>)
                   \o (IF NotNullish(view, "filters") THEN <<view.filters>> ELSE <<>>)
    IN  IF Len(parts) = 0 THEN <<>>
        ELSE <<translateFilter(parts[1])>>

\* buildWhere(baseFile.filters, view.filters): <<>> for undefined, else <<where>>.
buildWhere(file, view) ==
    LET parts == (IF NotNullish(file, "filters") THEN <<file.filters>> ELSE <<>>)
                   \o (IF NotNullish(view, "filters") THEN <<view.filters>> ELSE <<>>)
    IN  IF Len(parts) = 0 THEN <<>>
        ELSE IF Len(parts) = 1 THEN <<translateFilter(parts[1])>>
        ELSE <<[and |-> [i \in DOMAIN parts |-> translateFilter(parts[i])]]>>

\* A variant that sorts by the first column of view.order when the view has
\* no groupBy.
buildOrderBy_fromOrder(view) ==
    IF ~Has(view, "groupBy")
    THEN IF Has(view, "order") /\ Len(view.order) > 0
         THEN <<(<<[field |-> normalizePropertyId(view.order[1]), direction |-> S_asc]>>)>>
         ELSE <<>>
    ELSE LET prop == normalizePropertyId(view.groupBy.property)
             dir == IF Has(view.groupBy, "direction")
                    THEN toLowerCase(view.groupBy.direction)
                    ELSE S_asc
         IN  <<(<<[field |-> prop, direction |-> dir]>>)>>

\* buildOrderBy(view): <<>> for undefined, else <<order_by>>.
buildOrderBy(view) ==
    IF ~Has(view, "groupBy") THEN <<>>
    ELSE LET prop == normalizePropertyId(view.groupBy.property)
             dir == IF Has(view.groupBy, "direction")
                    THEN toLowerCase(view.groupBy.direction)
                    ELSE S_asc
         IN  <<(<<[field |-> prop, direction |-> dir]>>)>>

\* A variant that sends the smaller of the two limits.
effectiveLimit_min(view, options) ==
    IF Has(options, "limit") /\ Has(view, "limit")
    THEN <<IF options.limit < view.limit THEN options.limit ELSE view.limit>>
    ELSE IF Has(options, "limit") THEN <<options.limit>>
    ELSE IF Has(view, "limit") THEN <<view.limit>>
    ELSE <<>>

\* opts.limit ?? view.limit: <<>> for undefined, else <<limit>>.
effectiveLimit(view, options) ==
    IF Has(options, "limit") THEN <<options.limit>>
    ELSE IF Has(view, "limit") THEN <<view.limit>>
    ELSE <<>>

RECURSIVE filterFormulas(_)
\* The loop over Object.entries(formulas): the entries with a non-empty name
\* and a non-empty string expression, each expression translated.
filterFormulas(entries) ==
    IF entries = <<>> THEN <<>>
    ELSE LET e == Head(entries)
             rest == filterFormulas(Tail(entries))
         IN  IF e.k # S_empty /\ Has(e.v, "str") /\ e.v.str # S_empty
             THEN <<[k |-> e.k, v |-> translateExpression(e.v.str)]>> \o rest
             ELSE rest

\* The `formulas` member of the request: <<>> for undefined, else <<formulas>>.
queryFormulas(file) ==
    IF ~Has(file, "formulas") THEN <<>>
    ELSE IF ~RecordGiven(file, "formulas") THEN <<file.formulas>>
    ELSE LET filtered == filterFormulas(file.formulas)
         IN  IF Len(filtered) > 0 THEN <<filtered>> ELSE <<>>

\* The argument of collection.query.
buildQuery(file, view, options) ==
    LET where == buildWhere(file, view)
        orderBy == buildOrderBy(view)
        limit == effectiveLimit(view, options)
        formulas == queryFormulas(file)
        body == IF Has(options, "includeBody") THEN options.includeBody ELSE FALSE
    IN  WithKey(WithKey(WithKey(WithKey([include_body |-> body],
            Len(where) = 1, "where", where[1]),
            Len(orderBy) = 1, "order_by", orderBy[1]),
            Len(limit) = 1, "limit", limit[1]),
            Len(formulas) = 1, "formulas", formulas[1])

(***************************************************************************)
(* executeView, second half: the result  (executor.ts)                     *)
(***************************************************************************)

formulaColumn(name) == S_formula \o name

\* The keys resolveColumns adds for one row, in order.
rowFields(row) ==
    SelectSeq(Keys(row.frontmatter), LAMBDA key : key # S_type)
        \o (IF Has(row, "formulas")
            THEN [i \in DOMAIN row.formulas |-> formulaColumn(row.formulas[i].k)]
            ELSE <<>>)

RECURSIVE rowsFields(_)
rowsFields(rows) ==
    IF rows = <<>> THEN <<>> ELSE rowFields(Head(rows)) \o rowsFields(Tail(rows))

HasFieldOverrides(options) == Has(options, "fields") /\ Len(options.fields) > 0

HasOrder(view) == Has(view, "order") /\ Len(view.order) > 0

\* A variant that adds the declared formulas only when rows came back.
autoDetectColumns_rowsOnly(file, rows) ==
    LET declared == IF RecordGiven(file, "formulas") /\ rows # <<>>
                    THEN [i \in DOMAIN file.formulas |-> formulaColumn(file.formulas[i].k)]
                    ELSE <<>>
    IN  SetAddAll(<<>>, rowsFields(rows) \o declared)

\* The auto-detect branch of resolveColumns: Array.from(fields).
autoDetectColumns(file, rows) ==
    LET declared == IF RecordGiven(file, "formulas")
                    THEN [i \in DOMAIN file.formulas |-> formulaColumn(file.formulas[i].k)]
                    ELSE <<>>
    IN  SetAddAll(<<>>, rowsFields(rows) \o declared)

\* A variant that appends the view's order to the overrides.
resolveColumns_merge(file, view, rows, options) ==
    LET ordered == IF HasOrder(view)
                   THEN [i \in DOMAIN view.order |-> normalizePropertyId(view.order[i])]
                   ELSE <<>>
    IN  IF HasFieldOverrides(options) THEN options.fields \o ordered
        ELSE IF HasOrder(view) THEN ordered
        ELSE autoDetectColumns(file, rows)

\* resolveColumns(baseFile, view, rows, opts.fields)
resolveColumns(file, view, rows, options) ==
    IF HasFieldOverrides(options) THEN options.fields
    ELSE IF HasOrder(view)
         THEN [i \in DOMAIN view.order |-> normalizePropertyId(view.order[i])]
    ELSE autoDetectColumns(file, rows)

RECURSIVE displayNamesOf_rawKey(_, _)
\* A variant that registers a display name under the key as spelled.
displayNamesOf_rawKey(entries, acc) ==
    IF entries = <<>> THEN acc
    ELSE LET e == Head(entries)
         IN  IF Has(e.v, "displayName") /\ e.v.displayName # S_empty
             THEN displayNamesOf_rawKey(Tail(entries), SetEntry(acc, e.k, e.v.displayName))
             ELSE displayNamesOf_rawKey(Tail(entries), acc)

RECURSIVE displayNamesOf(_, _)
\* The loop over Object.entries(baseFile.properties), from the map `acc`.
displayNamesOf(entries, acc) ==
    IF entries = <<>> THEN acc
    ELSE LET e == Head(entries)
         IN  IF Has(e.v, "displayName") /\ e.v.displayName # S_empty
             THEN displayNamesOf(Tail(entries),
                                 SetEntry(acc, normalizePropertyId(e.k), e.v.displayName))
             ELSE displayNamesOf(Tail(entries), acc)

buildDisplayNames(file) ==
    IF RecordGiven(file, "properties") THEN displayNamesOf(file.properties, <<>>) ELSE <<>>

\* The BaseResult executeView returns for a successful queryResult.
viewResult(file, view, options, queryResult) ==
    LET rows == queryResult.results
    IN  [view |-> view,
         columns |-> resolveColumns(file, view, rows, options),
         displayNames |-> buildDisplayNames(file),
         rows |-> rows,
         totalCount |-> IF Has(queryResult, "meta") /\ Has(queryResult.meta, "total_count")
                        THEN queryResult.meta.total_count
                        ELSE Len(rows),
         hasMore |-> IF Has(queryResult, "meta") /\ Has(queryResult.meta, "has_more")
                     THEN queryResult.meta.has_more
                     ELSE FALSE]

(***************************************************************************)
(* getColumnValue  (executor.ts)                                           *)
(*                                                                         *)
(* A front-matter or formula value is [num |-> n], [str |-> chars] or      *)
(* NullValue.                                                              *)
(***************************************************************************)

S_fileName == <<"f", "i", "l", "e", ".", "n", "a", "m", "e">>

S_filePath == <<"f", "i", "l", "e", ".", "p", "a", "t", "h">>

S_fileFolder == <<"f", "i", "l", "e", ".", "f", "o", "l", "d", "e", "r">>

S_slash == <<"/">>

RECURSIVE split(_, _)
\* String.prototype.split(sep), for a separator of one character.
split(s, sep) ==
    IF \E i \in DOMAIN s : s[i] = sep[1]
    THEN LET at == CHOOSE i \in DOMAIN s : s[i] = sep[1] /\ \A j \in 1..(i - 1) : s[j] # sep[1]
         IN  <<SubSeq(s, 1, at - 1)>> \o split(SubSeq(s, at + 1, Len(s)), sep)
    ELSE <<s>>

\* record?.[key]: <<>> for undefined, else <<value>>.
Member(row, record, key) ==
    IF ~Has(row, record) THEN <<>>
    ELSE LET hits == {i \in DOMAIN row[record] : row[record][i].k = key}
         IN  IF hits = {} THEN <<>> ELSE <<row[record][CHOOSE i \in hits : TRUE].v>>

\* x ?? null
OrNull(x) == IF x = <<>> THEN NullValue ELSE x[1]

\* A variant that falls back to the front matter for a formula column.
getColumnValue_fallback(row, column) ==
    IF column = S_fileName \/ column = S_filePath
    THEN IF column = S_filePath
         THEN [str |-> row.path]
         ELSE [str |-> split(row.path, S_slash)[Len(split(row.path, S_slash))]]
    ELSE IF column = S_fileFolder
    THEN LET parts == split(row.path, S_slash)
         IN  [str |-> IF Len(parts) > 1 THEN join(SubSeq(parts, 1, Len(parts) - 1), S_slash)
                      ELSE S_empty]
    ELSE IF startsWith(column, S_formula)
    THEN IF Member(row, "formulas", slice(column, 8)) # <<>>
         THEN OrNull(Member(row, "formulas", slice(column, 8)))
         ELSE OrNull(Member(row, "frontmatter", column))
    ELSE OrNull(Member(row, "frontmatter", column))

getColumnValue(row, column) ==
    IF column = S_fileName \/ column = S_filePath
    THEN IF column = S_filePath
         THEN [str |-> row.path]
         ELSE [str |-> split(row.path, S_slash)[Len(split(row.path, S_slash))]]
    ELSE IF column = S_fileFolder
    THEN LET parts == split(row.path, S_slash)
         IN  [str |-> IF Len(parts) > 1 THEN join(SubSeq(parts, 1, Len(parts) - 1), S_slash)
                      ELSE S_empty]
    ELSE IF startsWith(column, S_formula)
    THEN OrNull(Member(row, "formulas", slice(column, 8)))
    ELSE OrNull(Member(row, "frontmatter", column))

(***************************************************************************)
(* printResults, printJSON, printPaths, rowToObject  (formatter.ts)        *)
(*                                                                         *)
(* A line of output is [text |-> chars] (styled, when chalk styles it),      *)
(* [table |-> t] for the text of a cli-table3 table with head and body t,  *)
(* or [json |-> value] for the text                                        *)
(* JSON.stringify makes of a value.  A JSON value is [object |-> entries], *)
(* [array |-> items], [str |-> chars], [num |-> n], [bool |-> b] or        *)
(* NullValue.                                                              *)
(***************************************************************************)

S_path == <<"p", "a", "t", "h">>

S_view == <<"v", "i", "e", "w">>

S_name == <<"n", "a", "m", "e">>

S_columns == <<"c", "o", "l", "u", "m", "n", "s">>

S_results == <<"r", "e", "s", "u", "l", "t", "s">>

S_meta == <<"m", "e", "t", "a">>

S_totalCount == <<"t", "o", "t", "a", "l", "_", "c", "o", "u", "n", "t">>

S_hasMore == <<"h", "a", "s", "_", "m", "o", "r", "e">>

Entry(key, value) == [k |-> key, v |-> value]

RECURSIVE rowToObjectFrom(_, _, _)
\* The loop of rowToObject over the columns still to add.
rowToObjectFrom(obj, row, columns) ==
    IF columns = <<>> THEN obj
    ELSE rowToObjectFrom(SetEntry(obj, Head(columns), getColumnValue(row, Head(columns))),
                         row, Tail(columns))

rowToObject(row, columns) ==
    rowToObjectFrom(<<Entry(S_path, [str |-> row.path])>>, row, columns)

\* The object printJSON maps one result to.
viewObject(result) ==
    [object |-> <<
        Entry(S_view,
              [object |-> <<Entry(S_type, [str |-> result.view.type])>>
                  \o (IF Has(result.view, "name") /\ result.view.name # S_empty
                      THEN <<Entry(S_name, [str |-> result.view.name])>>
                      ELSE <<>>)]),
        Entry(S_columns,
              [array |-> [i \in DOMAIN result.columns |-> [str |-> result.columns[i]]]]),
        Entry(S_results,
              [array |-> [i \in DOMAIN result.rows |->
                            [object |-> rowToObject(result.rows[i], result.columns)]]]),
        Entry(S_meta,
              [object |-> <<Entry(S_totalCount, [num |-> result.totalCount])>>
                  \o (IF result.hasMore THEN <<Entry(S_hasMore, [bool |-> TRUE])>>
                      ELSE <<>>)]) >>]

\* A variant that never unwraps a single result.
printJSON_alwaysArray(rs) ==
    LET output == [i \in DOMAIN rs |-> viewObject(rs[i])]
    IN  <<[json |-> [array |-> output]]>>

printJSON(rs) ==
    LET output == [i \in DOMAIN rs |-> viewObject(rs[i])]
    IN  <<[json |-> IF Len(output) = 1 THEN output[1] ELSE [array |-> output]]>>

RECURSIVE allPaths(_)
\* row.path for every row of every result, in the order of the two loops.
allPaths(rs) ==
    IF rs = <<>> THEN <<>>
    ELSE [i \in DOMAIN Head(rs).rows |-> Head(rs).rows[i].path] \o allPaths(Tail(rs))

RECURSIVE printPaths_perView(_)
\* A variant whose `seen` set is made anew for each result.
printPaths_perView(rs) ==
    IF rs = <<>> THEN <<>>
    ELSE LET paths == SetAddAll(<<>>, allPaths(<<Head(rs)>>))
         IN  [i \in DOMAIN paths |-> [text |-> paths[i]]] \o printPaths_perView(Tail(rs))

printPaths(rs) ==
    LET paths == SetAddAll(<<>>, allPaths(rs))
    IN  [i \in DOMAIN paths |-> [text |-> paths[i]]]

S_rule == <<"U+2500", "U+2500">>

S_viewSuffix == <<" ", "v", "i", "e", "w">>

S_noResults == <<"N", "o", " ", "r", "e", "s", "u", "l", "t", "s">>

S_showing == <<"S", "h", "o", "w", "i", "n", "g", " ">>

S_of == <<" ", "o", "f", " ">>

S_resultsSuffix == <<" ", "r", "e", "s", "u", "l", "t", "s">>

RECURSIVE numberToString(_)
\* String(n) for a natural number.
numberToString(n) ==
    IF n < 10 THEN <<Digits[n + 1]>>
    ELSE numberToString(n \div 10) \o <<Digits[(n % 10) + 1]>>

\* formatValue, for the values a row holds here (no arrays).
formatValue(value) ==
    IF value = NullValue THEN S_empty
    ELSE IF Has(value, "num") THEN numberToString(value.num)
    ELSE value.str

\* The lines of the view header: a blank line for every result but the
\* first, then the bold header.
tableHeader(result, i) ==
    LET viewName == IF Has(result.view, "name") THEN result.view.name
                    ELSE result.view.type \o S_viewSuffix
    IN  (IF i > 1 THEN <<[text |-> S_empty]>> ELSE <<>>)
        \o <<[text |-> S_rule \o <<" ">> \o viewName \o <<" ">> \o S_rule, style |-> "bold"]>>

\* The table of one result: the head cells, then one sequence of cells for
\* each row.
tableOf(result) ==
    LET columns == <<S_path>> \o result.columns
    IN  [head |-> [c \in DOMAIN columns |->
                     IF Member(result, "displayNames", columns[c]) # <<>>
                     THEN Member(result, "displayNames", columns[c])[1]
                     ELSE columns[c]],
         body |-> [r \in DOMAIN result.rows |->
                     <<result.rows[r].path>>
                     \o [c \in DOMAIN result.columns |->
                           formatValue(getColumnValue(result.rows[r], result.columns[c]))]]]

\* What one turn of the loop of printTable prints for rs[i].
tableBlock(rs, i, withHeader) ==
    LET result == rs[i]
    IN  (IF withHeader THEN tableHeader(result, i) ELSE <<>>)
        \o (IF Len(result.rows) = 0
            THEN <<[text |-> S_noResults, style |-> "dim"]>>
            ELSE <<[table |-> tableOf(result)]>>
                 \o (IF result.hasMore
                     THEN <<[text |-> S_showing \o numberToString(Len(result.rows)) \o S_of
                                      \o numberToString(result.totalCount) \o S_resultsSuffix,
                             style |-> "dim"]>>
                     ELSE <<>>))

\* A variant that prints the view header for a single result too.
printTable_alwaysHeader(rs) ==
    Flatten([i \in DOMAIN rs |-> tableBlock(rs, i, TRUE)])

printTable(rs) ==
    Flatten([i \in DOMAIN rs |-> tableBlock(rs, i, Len(rs) > 1)])

\* The formats modelled.
Formats == {"json", "paths", "table"}

printResults(rs, fmt) ==
    IF fmt = "json" THEN printJSON(rs)
    ELSE IF fmt = "paths" THEN printPaths(rs)
    ELSE printTable(rs)

(***************************************************************************)
(* executeBase: view selection  (executor.ts)                              *)
(***************************************************************************)

S_table == <<"t", "a", "b", "l", "e">>

S_viewNotFound == <<"v", "i", "e", "w", " ", "n", "o", "t", " ", "f", "o", "u", "n", "d", ":", " ", "\"">>

S_available == <<"\"", " ", "(", "a", "v", "a", "i", "l", "a", "b", "l", "e", ":", " ">>

S_unnamed == <<"(", "u", "n", "n", "a", "m", "e", "d", " ">>

S_commaSpace == <<",", " ">>

\* if (opts.viewName)
ViewNameGiven(options) == Has(options, "viewName") /\ options.viewName # S_empty

\* baseFile.views ?? [{ type: "table" }]
workingViews(file) == IF Has(file, "views") THEN file.views ELSE <<[type |-> S_table]>>

\* v.name?.toLowerCase() === opts.viewName.toLowerCase()
nameMatches(view, viewName) ==
    Has(view, "name") /\ toLowerCase(view.name) = toLowerCase(viewName)

\* A variant that returns the last view of that name.
findView_last(vs, viewName) ==
    IF \E i \in DOMAIN vs : nameMatches(vs[i], viewName)
    THEN CHOOSE i \in DOMAIN vs :
            nameMatches(vs[i], viewName) /\ \A j \in (i + 1)..Len(vs) : ~nameMatches(vs[j], viewName)
    ELSE 0

\* Index of the view views.find returns, 0 for undefined.
findView(vs, viewName) ==
    IF \E i \in DOMAIN vs : nameMatches(vs[i], viewName)
    THEN CHOOSE i \in DOMAIN vs :
            nameMatches(vs[i], viewName) /\ \A j \in 1..(i - 1) : ~nameMatches(vs[j], viewName)
    ELSE 0

\* A variant that labels every unnamed view alike.
viewLabel_noKind(view) ==
    IF Has(view, "name") THEN view.name ELSE S_unnamed \o <<")">>

\* v.name ?? `(unnamed ${v.type})`
viewLabel(view) ==
    IF Has(view, "name") THEN view.name ELSE S_unnamed \o view.type \o <<")">>

viewNotFoundError(vs, viewName) ==
    [code |-> "view_not_found",
     message |-> S_viewNotFound \o viewName \o S_available
                   \o join([i \in DOMAIN vs |-> viewLabel(vs[i])], S_commaSpace) \o <<")">>]

(***************************************************************************)
(* parseBaseFile, validateBaseStructure, normalizeView  (parser.ts)        *)
(*                                                                         *)
(* The parser inspects the kind of the values yaml.load hands it, so here  *)
(* a YAML value carries its kind: [undefined |-> TRUE] (an empty stream),  *)
(* NullValue, [str |-> chars], [num |-> n], [bool |-> b], [date |-> chars] *)
(* (a timestamp scalar, which the default schema of js-yaml loads as a     *)
(* Date), [seq |-> items] and [map |-> f], f a function on the keys of the *)
(* mapping.  yaml.load either returns such a value, [loaded |-> value], or *)
(* throws, [thrown |-> exception].                                         *)
(***************************************************************************)

S_expectedMapping == <<"e", "x", "p", "e", "c", "t", "e", "d", " ", "Y", "A", "M", "L", " ", "m", "a", "p", "p", "i", "n", "g", " ", "a", "t", " ", "t", "o", "p", " ", "l", "e", "v", "e", "l">>

S_invalidYaml == <<"i", "n", "v", "a", "l", "i", "d", " ", "Y", "A", "M", "L">>

S_nullType == <<"C", "a", "n", "n", "o", "t", " ", "r", "e", "a", "d", " ", "p", "r", "o", "p", "e", "r", "t", "i", "e", "s", " ", "o", "f", " ", "n", "u", "l", "l", " ", "(", "r", "e", "a", "d", "i", "n", "g", " ", "'", "t", "y", "p", "e", "'", ")">>

Undefined == [undefined |-> TRUE]

\* typeof value
TypeOf(value) ==
    IF Has(value, "undefined") THEN "undefined"
    ELSE IF Has(value, "str") THEN "string"
    ELSE IF Has(value, "num") THEN "number"
    ELSE IF Has(value, "bool") THEN "boolean"
    ELSE "object"

\* Array.isArray(value)
IsArray(value) == Has(value, "seq")

\* The attributes normalizeView copies when they are not null.
ViewAttributes ==
    {"name", "limit", "filters", "groupBy", "order", "summaries", "rowHeight",
     "coverProperty", "imageFit", "aspectRatio", "cardSize", "listStyle",
     "separator", "coordinatesProperty", "tileUrl"}

\* raw.<key>: <<>> for undefined, else <<value>>; a scalar or a sequence has
\* none of the members normalizeView reads.
RawMember(raw, key) ==
    IF Has(raw, "map") /\ Has(raw.map, key) THEN <<raw.map[key]>> ELSE <<>>

\* normalizeView(raw), for a raw that is not null.
normalizeView(raw) ==
    LET type == IF RawMember(raw, "type") # <<>> /\ RawMember(raw, "type")[1] # NullValue
                THEN RawMember(raw, "type")[1]
                ELSE [str |-> S_table]
        kept == {k \in ViewAttributes :
                    RawMember(raw, k) # <<>> /\ RawMember(raw, k)[1] # NullValue}
    IN  [map |-> [k \in kept \cup {"type"} |-> IF k = "type" THEN type ELSE raw.map[k]]]

\* raw.views.map(normalizeView) throws a TypeError on a null entry.
NormalizeViewThrows(raw) ==
    /\ Has(raw, "views")
    /\ IsArray(raw.views)
    /\ \E i \in DOMAIN raw.views.seq : raw.views.seq[i] = NullValue

\* validateBaseStructure(raw), for a raw whose views hold no null.
validateBaseStructure(raw) ==
    LET kept == {k \in {"filters"} : Has(raw, k)}
                  \cup {k \in {"formulas", "properties", "summaries"} :
                            Has(raw, k) /\ TypeOf(raw[k]) = "object"}
                  \cup {k \in {"views"} : Has(raw, k) /\ IsArray(raw[k])}
    IN  [k \in kept |->
            IF k = "views"
            THEN [seq |-> [i \in DOMAIN raw.views.seq |-> normalizeView(raw.views.seq[i])]]
            ELSE raw[k]]

\* The catch block: the ParseResult for a thrown value.
parseError(err) ==
    LET message == IF Has(err, "message") THEN err.message ELSE S_invalidYaml
    IN  IF Has(err, "mark") /\ Has(err.mark, "line")
        THEN [error |-> [message |-> message, line |-> err.mark.line + 1]]
        ELSE [error |-> [message |-> message]]

\* parseBaseFile(content), given what yaml.load(content) does.
parseBaseFile(load) ==
    IF Has(load, "thrown") THEN parseError(load.thrown)
    ELSE LET parsed == load.loaded
         IN  IF parsed = NullValue \/ parsed = Undefined THEN [base |-> <<>>]
             ELSE IF TypeOf(parsed) # "object" \/ IsArray(parsed)
                  THEN [error |-> [message |-> S_expectedMapping]]
             ELSE LET raw == IF Has(parsed, "map") THEN parsed.map ELSE <<>>
                  IN  IF NormalizeViewThrows(raw)
                      THEN parseError([message |-> S_nullType])
                      ELSE [base |-> validateBaseStructure(raw)]

(***************************************************************************)
(* Pure-function harness: Init draws an input, the actions apply the       *)
(* function and record what it returned.                                   *)
(***************************************************************************)

MaxIdTokens == 3

MaxExprTokens == 4

MaxChildren == 3

ExecIdle ==
    /\ baseFile = <<>>
    /\ opts = <<>>
    /\ pc = "idle"
    /\ views = <<>>
    /\ idx = 0
    /\ results = <<>>
    /\ queries = <<>>
    /\ responses = <<>>
    /\ outcome = <<>>
    /\ format = "unread"
    /\ stdout = <<>>

PureIdle ==
    /\ fn = "none"
    /\ arg = <<>>
    /\ ret = <<>>

RunIdle ==
    /\ runArgs = <<>>
    /\ runPc = "idle"
    /\ exitCode = -1
    /\ runStdout = <<>>
    /\ runStderr = <<>>

\* The callers of the registry.
Procs == {1, 2}

RegIdle ==
    /\ registryFile = <<>>
    /\ regClock = 0
    /\ regProcs = [p \in Procs |-> <<>>]
    /\ regLast = <<>>

CliIdle ==
    /\ cliArgs = <<>>
    /\ cliPc = "idle"
    /\ cliExit = -1
    /\ cliStdout = <<>>
    /\ cliStderr = <<>>
    /\ cwd = <<>>
    /\ actionCwd = <<>>

ImpIdle ==
    /\ impArgs = <<>>
    /\ impPc = "idle"
    /\ impIdx = 0
    /\ impResult = <<>>
    /\ impCreates = <<>>
    /\ impExit = -1
    /\ impStdout = <<>>
    /\ impStderr = <<>>

WatchIdle ==
    /\ watchArgs = <<>>
    /\ watchPc = "idle"
    /\ watchNow = 0
    /\ debounceTimer = 0
    /\ watchTimers = {}
    /\ watchCallbacks = {}
    /\ watchEvents = <<>>
    /\ watchSignals = <<>>
    /\ watchOut = <<>>
    /\ watchExit = -1

SideIdle == RunIdle /\ RegIdle /\ CliIdle /\ ImpIdle /\ WatchIdle

\* Property ids are spelled from these pieces.
IdTokens == {S_note, <<"n", "o", "t", "e">>, <<".">>, <<"x">>, <<"f", "i", "l", "e", ".">>}

PropIdInputs == {Flatten(ts) : ts \in SeqsOf(IdTokens, 0, MaxIdTokens)}

\* Expressions are spelled from these pieces.
ExprTokens == {S_note, S_fileCall, S_iconCall, <<")">>, <<"\"">>, <<"x">>, <<" ">>}

ExprInputs == {Flatten(ts) : ts \in SeqsOf(ExprTokens, 0, MaxExprTokens)}

LeafPool == {Leaf(S_note \o <<"a">>), Leaf(S_fileCall \o <<"b", ")">>), Leaf(<<"x">>)}

FilterInputs ==
    LET kids == SeqsOf(LeafPool, 0, MaxChildren)
    IN  LeafPool
          \cup {And(s) : s \in kids} \cup {Or(s) : s \in kids} \cup {Not(s) : s \in kids}
          \cup {Not(<<Or(s)>>) : s \in SeqsOf(LeafPool, 2, 2)}
          \cup {[obj |-> <<>>]}
          \cup {[obj |-> [k \in {"and", "not"} |-> s]] : s \in SeqsOf(LeafPool, 2, 2)}

\* ---- normalizePropertyId ----

InitNorm ==
    /\ ExecIdle
    /\ SideIdle
    /\ fn = "normalizePropertyId"
    /\ arg \in PropIdInputs
    /\ ret = <<>>

NormalizeFirst ==
    /\ fn = "normalizePropertyId"
    /\ ret = <<>>
    /\ ret' = <<normalizePropertyId(arg)>>
    /\ UNCHANGED <<fn, arg>>
    /\ UNCHANGED execVars
    /\ UNCHANGED sideVars

NormalizeSecond ==
    /\ fn = "normalizePropertyId"
    /\ Len(ret) = 1
    /\ ret' = Append(ret, normalizePropertyId(ret[1]))
    /\ UNCHANGED <<fn, arg>>
    /\ UNCHANGED execVars
    /\ UNCHANGED sideVars

NextNorm == NormalizeFirst \/ NormalizeSecond

SpecNorm == InitNorm /\ [][NextNorm]_vars

\* ---- translateExpression ----

InitExpr ==
    /\ ExecIdle
    /\ SideIdle
    /\ fn = "translateExpression"
    /\ arg \in ExprInputs
    /\ ret = <<>>

TranslateExpressionCall ==
    /\ fn = "translateExpression"
    /\ ret = <<>>
    /\ ret' = <<translateExpression(arg)>>
    /\ UNCHANGED <<fn, arg>>
    /\ UNCHANGED execVars
    /\ UNCHANGED sideVars

NextExpr == TranslateExpressionCall

SpecExpr == InitExpr /\ [][NextExpr]_vars

\* ---- translateFilter ----

InitFilter ==
    /\ ExecIdle
    /\ SideIdle
    /\ fn = "translateFilter"
    /\ arg \in FilterInputs
    /\ ret = <<>>

TranslateFilterCall ==
    /\ fn = "translateFilter"
    /\ ret = <<>>
    /\ ret' = <<translateFilter(arg)>>
    /\ UNCHANGED <<fn, arg>>
    /\ UNCHANGED execVars
    /\ UNCHANGED sideVars

\* For a filter {not: [...]}, also translate {not: [{and: [...]}]}.
TranslateNotOfAndCall ==
    /\ fn = "translateFilter"
    /\ Len(ret) = 1
    /\ ~IsString(arg)
    /\ DOMAIN arg.obj = {"not"}
    /\ ret' = Append(ret, translateFilter(Not(<<And(arg.obj["not"])>>)))
    /\ UNCHANGED <<fn, arg>>
    /\ UNCHANGED execVars
    /\ UNCHANGED sideVars

NextFilter == TranslateFilterCall \/ TranslateNotOfAndCall

SpecFilter == InitFilter /\ [][NextFilter]_vars

\* ---- getColumnValue ----

MaxSegments == 3

PathSegments == {<<"a", ".", "m", "d">>, <<"d">>, <<>>}

PathInputs == {join(segs, S_slash) : segs \in SeqsOf(PathSegments, 1, MaxSegments)}

RowShapes ==
    { [frontmatter |-> <<[k |-> <<"p">>, v |-> [num |-> 2]],
                         [k |-> S_fileName, v |-> [str |-> <<"x">>]],
                         [k |-> S_formula \o <<"h">>, v |-> [num |-> 9]],
                         [k |-> <<"n">>, v |-> NullValue],
                         [k |-> <<"z">>, v |-> [num |-> 0]]>>,
       types |-> <<"note">>,
       formulas |-> <<[k |-> <<"f">>, v |-> [num |-> 3]],
                      [k |-> <<"p">>, v |-> [num |-> 7]],
                      [k |-> <<"g">>, v |-> NullValue]>>],
      [frontmatter |-> <<>>, types |-> <<>>],
      [frontmatter |-> <<[k |-> <<"f">>, v |-> [str |-> <<"y">>]]>>,
       types |-> <<>>,
       formulas |-> <<>>] }

RowInputs == {("path" :> path) @@ shape : path \in PathInputs, shape \in RowShapes}

ColumnInputs ==
    { S_fileName, S_filePath, S_fileFolder,
      <<"f", "i", "l", "e", ".", "e", "x", "t">>,
      S_formula \o <<"f">>, S_formula \o <<"p">>, S_formula \o <<"g">>,
      S_formula \o <<"h">>, S_formula,
      <<"f", "o", "r", "m", "u", "l", "a">>,
      <<"p">>, <<"f">>, <<"n">>, <<"z">>, <<"q">> }

InitColumn ==
    /\ ExecIdle
    /\ SideIdle
    /\ fn = "getColumnValue"
    /\ arg \in [row : RowInputs, column : ColumnInputs]
    /\ ret = <<>>

GetColumnValueCall ==
    /\ fn = "getColumnValue"
    /\ ret = <<>>
    /\ ret' = <<getColumnValue(arg.row, arg.column)>>
    /\ UNCHANGED <<fn, arg>>
    /\ UNCHANGED execVars
    /\ UNCHANGED sideVars

NextColumn == GetColumnValueCall

SpecColumn == InitColumn /\ [][NextColumn]_vars

\* ---- parseBaseFile ----

\* What a section of the mapping may hold.
SectionValues ==
    { NullValue,
      [map |-> <<>>],
      [map |-> [f |-> [str |-> <<"x">>]]],
      [seq |-> <<>>],
      [seq |-> <<[map |-> [name |-> [str |-> <<"A">>], limit |-> NullValue]],
                 [str |-> <<"x">>]>>],
      [seq |-> <<NullValue>>],
      [str |-> <<"x">>] }

SectionNames == {"filters", "formulas", "properties", "summaries", "views"}

MappingInputs ==
    UNION {[present -> SectionValues] : present \in SUBSET SectionNames}

LoadInputs ==
    {[loaded |-> [map |-> f]] : f \in MappingInputs}
      \cup {[loaded |-> v] :
              v \in { Undefined, NullValue,
                      [str |-> <<"x">>], [num |-> 5], [bool |-> TRUE],
                      [date |-> <<"2", "0", "2", "4", "-", "0", "1", "-", "0", "1">>],
                      [seq |-> <<>>], [seq |-> <<[str |-> <<"x">>]>>] }}
      \cup {[thrown |-> e] :
              e \in { [message |-> <<"b", "a", "d">>, mark |-> [line |-> 0]],
                      [message |-> <<"b", "a", "d">>] }}

InitParse ==
    /\ ExecIdle
    /\ SideIdle
    /\ fn = "parseBaseFile"
    /\ arg \in LoadInputs
    /\ ret = <<>>

ParseBaseFileCall ==
    /\ fn = "parseBaseFile"
    /\ ret = <<>>
    /\ ret' = <<parseBaseFile(arg)>>
    /\ UNCHANGED <<fn, arg>>
    /\ UNCHANGED execVars
    /\ UNCHANGED sideVars

NextParse == ParseBaseFileCall

SpecParse == InitParse /\ [][NextParse]_vars

(***************************************************************************)
(* Properties of the pure functions                                        *)
(***************************************************************************)

IsNotOfLeaves(filter) ==
    /\ ~IsString(filter)
    /\ DOMAIN filter.obj = {"not"}
    /\ \A i \in DOMAIN filter.obj["not"] : IsString(filter.obj["not"][i])

TranslatedLeaves(leaves) ==
    [i \in DOMAIN leaves |-> [str |-> translateExpression(leaves[i].str)]]

\* C2: for N >= 2 leaves a..n, translateFilter(Not([a..n])) is
\* {not: {and: [translated a, ..., translated n]}} and equals
\* translateFilter(Not([And([a..n])])); Not([a]) yields {not: translated a}.
C2_NotDesugaring ==
    (fn = "translateFilter" /\ IsNotOfLeaves(arg) /\ Len(ret) >= 1) =>
        LET leaves == arg.obj["not"]
        IN  /\ Len(leaves) = 1 => ret[1] = [not |-> TranslatedLeaves(leaves)[1]]
            /\ Len(leaves) >= 2 => ret[1] = [not |-> [and |-> TranslatedLeaves(leaves)]]
            /\ (Len(leaves) >= 2 /\ Len(ret) = 2) => ret[2] = ret[1]

C2_Witness ==
    /\ fn = "translateFilter"
    /\ IsNotOfLeaves(arg)
    /\ Len(arg.obj["not"]) >= 2
    /\ Len(ret) = 2
    /\ ret[1] = [not |-> [and |-> TranslatedLeaves(arg.obj["not"])]]

Quotes == {"\"", "'"}

\* Position of the first occurrence of the character q in s at or after i,
\* 0 when there is none.
NextQuote(s, i, q) ==
    IF \E j \in i..Len(s) : s[j] = q
    THEN CHOOSE j \in i..Len(s) : s[j] = q /\ \A k \in i..(j - 1) : s[k] # q
    ELSE 0

RECURSIVE literalsFrom(_, _)
\* The contents of the quoted string literals of s from position i on, in
\* order: a literal runs from a quote character to the next occurrence of
\* the same character.
literalsFrom(s, i) ==
    IF i > Len(s) THEN <<>>
    ELSE IF s[i] \in Quotes
         THEN LET close == NextQuote(s, i + 1, s[i])
              IN  IF close = 0 THEN <<>>
                  ELSE <<SubSeq(s, i + 1, close - 1)>> \o literalsFrom(s, close + 1)
         ELSE literalsFrom(s, i + 1)

Literals(s) == literalsFrom(s, 1)

\* C10: the contents of every quoted string literal of an expression are
\* the same before and after translateExpression.
C10_LiteralsUnchanged ==
    (fn = "translateExpression" /\ Len(ret) = 1) => Literals(ret[1]) = Literals(arg)

\* The text "note." occurs somewhere in s.
MentionsNote(s) == \E i \in DOMAIN s : OccursAt(s, i, S_note)

\* The text `call` occurs somewhere in s with a ")" somewhere after it.
MentionsCall(s, call) ==
    \E i \in DOMAIN s :
        /\ OccursAt(s, i, call)
        /\ \E j \in (i + Len(call))..Len(s) : s[j] = ")"

PlainExpression(s) ==
    /\ ~MentionsNote(s)
    /\ ~MentionsCall(s, <<"f", "i", "l", "e", "(">>)
    /\ ~MentionsCall(s, <<"i", "c", "o", "n", "(">>)

\* C11: translateExpression returns unchanged every expression that holds
\* no "note.", no file(...) call and no icon(...) call.
C11_IdentityOnPlainExpressions ==
    (fn = "translateExpression" /\ Len(ret) = 1 /\ PlainExpression(arg)) => ret[1] = arg

C11_Witness ==
    /\ fn = "translateExpression"
    /\ Len(ret) = 1
    /\ PlainExpression(arg)
    /\ OccursAt(arg, 1, <<"i", "c", "o", "n", "(">>)
    /\ " " \in Range(arg)
    /\ "\"" \in Range(arg)
    /\ ret[1] = arg

(***************************************************************************)
(* executeBase as a state machine  (executor.ts)                           *)
(*                                                                         *)
(* Init is a call executeBase(baseFile, collection, opts) about to run.    *)
(* The collection is the external collaborator: each query it receives is  *)
(* logged, and it answers with any of the responses of ResponsePool.       *)
(***************************************************************************)

MaxViews == 2

S_cards == <<"c", "a", "r", "d", "s">>

S_list == <<"l", "i", "s", "t">>

P_noteA == S_note \o <<"a">>

P_noteP == S_note \o <<"p">>

View_bare == [type |-> S_table]

View_alpha ==
    [type |-> S_table,
     name |-> <<"A", "l", "p", "h", "a">>,
     filters |-> Leaf(P_noteA),
     order |-> <<P_noteP, <<"q">>, <<"f", "i", "l", "e", ".", "n", "a", "m", "e">> >>]

View_cards ==
    [type |-> S_cards,
     filters |-> Not(<<Leaf(<<"x">>), Leaf(P_noteA)>>),
     groupBy |-> [property |-> P_noteP, direction |-> <<"D", "E", "S", "C">>],
     limit |-> 2]

View_lower ==
    [type |-> S_list,
     name |-> <<"a", "l", "p", "h", "a">>,
     order |-> <<>>,
     groupBy |-> [property |-> <<"q">>]]

ViewPool == {View_bare, View_alpha, View_cards, View_lower}

\* The sections of a BaseFile other than `views`.
SectionPool ==
    { <<>>,
      [filters |-> Leaf(P_noteA),
       formulas |-> <<[k |-> <<"f">>, v |-> [str |-> P_noteA]],
                      [k |-> <<"e">>, v |-> [str |-> S_empty]]>>,
       properties |-> <<[k |-> P_noteP, v |-> [displayName |-> <<"P">>]],
                        [k |-> <<"q">>, v |-> <<>>]>>],
      [filters |-> Or(<<Leaf(<<"x">>), Leaf(S_fileCall \o <<"b", ")">>)>>),
       formulas |-> <<[k |-> S_empty, v |-> [str |-> <<"x">>]],
                      [k |-> <<"n">>, v |-> [num |-> 5]]>>],
      [filters |-> NullValue,
       formulas |-> <<>>,
       properties |-> <<[k |-> <<"p">>, v |-> [displayName |-> <<"P", "1">>]],
                        [k |-> P_noteP, v |-> [displayName |-> <<"P", "2">>]]>>],
      [formulas |-> NullRecord,
       properties |-> NullRecord] }

BaseFiles ==
    SectionPool \cup
    {("views" :> vs) @@ sections : vs \in SeqsOf(ViewPool, 0, MaxViews), sections \in SectionPool}

ViewNameOptions ==
    { <<>>,
      [viewName |-> S_empty],
      [viewName |-> <<"A", "L", "P", "H", "A">>],
      [viewName |-> <<"M", "i", "s", "s", "i", "n", "g">>] }

OtherOptions ==
    { <<>>,
      [fields |-> <<>>, limit |-> 1, includeBody |-> TRUE],
      [fields |-> <<<<"x">>, P_noteP>>],
      [limit |-> 5] }

OptionsPool == {a @@ b : a \in ViewNameOptions, b \in OtherOptions}

Row_a ==
    [path |-> <<"a", ".", "m", "d">>,
     frontmatter |-> <<[k |-> S_type, v |-> [num |-> 1]], [k |-> <<"p">>, v |-> [num |-> 2]]>>,
     types |-> <<"note">>,
     formulas |-> <<[k |-> <<"f">>, v |-> [num |-> 3]]>>]

Row_b ==
    [path |-> <<"d", "/", "b", ".", "m", "d">>,
     frontmatter |-> <<[k |-> <<"q">>, v |-> [num |-> 4]], [k |-> <<"p">>, v |-> NullValue]>>,
     types |-> <<>>]

SuccessPool ==
    { [results |-> <<>>],
      [results |-> <<Row_a>>, meta |-> [total_count |-> 2, has_more |-> TRUE]],
      [results |-> <<Row_b, Row_a>>] }

ErrorPool ==
    { [error |-> [code |-> "unknown_function",
                  message |-> <<"n", "o", " ", "f", "o", "o">>]],
      [error |-> [code |-> "invalid_expression",
                  message |-> <<"b", "a", "d">>]] }

ResponsePool == SuccessPool \cup ErrorPool

Init ==
    /\ PureIdle
    /\ SideIdle
    /\ baseFile \in BaseFiles
    /\ opts \in OptionsPool
    /\ pc = "entry"
    /\ views = <<>>
    /\ idx = 0
    /\ results = <<>>
    /\ queries = <<>>
    /\ responses = <<>>
    /\ outcome = <<>>
    /\ format = "unread"
    /\ stdout = <<>>

\* Lines 55-70 with a view selected, or none asked for; then `results = []`.
SelectViews ==
    /\ pc = "entry"
    /\ LET ws == workingViews(baseFile)
       IN  IF ViewNameGiven(opts)
           THEN /\ findView(ws, opts.viewName) # 0
                /\ views' = <<ws[findView(ws, opts.viewName)]>>
           ELSE views' = ws
    /\ idx' = 1
    /\ results' = <<>>
    /\ pc' = "loop"
    /\ UNCHANGED <<baseFile, opts, queries, responses, outcome>>
    /\ UNCHANGED pureVars
    /\ UNCHANGED sideVars
    /\ UNCHANGED outVars

\* Lines 56-68 with no match: throw BaseExecutionError(..., "view_not_found").
ViewNotFound ==
    /\ pc = "entry"
    /\ ViewNameGiven(opts)
    /\ findView(workingViews(baseFile), opts.viewName) = 0
    /\ views' = workingViews(baseFile)
    /\ outcome' = [thrown |-> viewNotFoundError(workingViews(baseFile), opts.viewName)]
    /\ pc' = "thrown"
    /\ UNCHANGED <<baseFile, opts, idx, results, queries, responses>>
    /\ UNCHANGED pureVars
    /\ UNCHANGED sideVars
    /\ UNCHANGED outVars

\* A variant that issues a view's query twice.
IssueQuery_twice ==
    /\ pc = "loop"
    /\ idx <= Len(views)
    /\ LET q == [forView |-> idx, request |-> buildQuery(baseFile, views[idx], opts)]
       IN  queries' = queries \o <<q, q>>
    /\ pc' = "awaiting"
    /\ UNCHANGED <<baseFile, opts, views, idx, results, responses, outcome>>
    /\ UNCHANGED pureVars
    /\ UNCHANGED sideVars
    /\ UNCHANGED outVars

\* executeView up to `await collection.query({...})` for the next view.
IssueQuery ==
    /\ pc = "loop"
    /\ idx <= Len(views)
    /\ queries' = Append(queries,
                         [forView |-> idx, request |-> buildQuery(baseFile, views[idx], opts)])
    /\ pc' = "awaiting"
    /\ UNCHANGED <<baseFile, opts, views, idx, results, responses, outcome>>
    /\ UNCHANGED pureVars
    /\ UNCHANGED sideVars
    /\ UNCHANGED outVars

\* The query resolves without error: the rest of executeView, results.push.
QuerySucceeds ==
    /\ pc = "awaiting"
    /\ \E r \in SuccessPool :
          /\ responses' = Append(responses, r)
          /\ results' = Append(results, viewResult(baseFile, views[idx], opts, r))
    /\ idx' = idx + 1
    /\ pc' = "loop"
    /\ UNCHANGED <<baseFile, opts, views, queries, outcome>>
    /\ UNCHANGED pureVars
    /\ UNCHANGED sideVars
    /\ UNCHANGED outVars

\* A variant that skips the failing view and goes on.
QueryFails_skip ==
    /\ pc = "awaiting"
    /\ \E r \in ErrorPool : responses' = Append(responses, r)
    /\ idx' = idx + 1
    /\ pc' = "loop"
    /\ UNCHANGED <<baseFile, opts, views, results, queries, outcome>>
    /\ UNCHANGED pureVars
    /\ UNCHANGED sideVars
    /\ UNCHANGED outVars

\* The query resolves with queryResult.error: throw BaseExecutionError.
QueryFails ==
    /\ pc = "awaiting"
    /\ \E r \in ErrorPool :
          /\ responses' = Append(responses, r)
          /\ outcome' = [thrown |-> [code |-> r.error.code, message |-> r.error.message]]
    /\ pc' = "thrown"
    /\ UNCHANGED <<baseFile, opts, views, idx, results, queries>>
    /\ UNCHANGED pureVars
    /\ UNCHANGED sideVars
    /\ UNCHANGED outVars

\* The loop is over: return results.
ReturnResults ==
    /\ pc = "loop"
    /\ idx > Len(views)
    /\ outcome' = [returned |-> results]
    /\ pc' = "returned"
    /\ UNCHANGED <<baseFile, opts, views, idx, results, queries, responses>>
    /\ UNCHANGED pureVars
    /\ UNCHANGED sideVars
    /\ UNCHANGED outVars

\* printResults(results, format) on the results executeBase resolved to.
PrintResults ==
    /\ pc = "returned"
    /\ \E fmt \in Formats :
          /\ format' = fmt
          /\ stdout' = printResults(outcome.returned, fmt)
    /\ pc' = "printed"
    /\ UNCHANGED <<baseFile, opts, views, idx, results, queries, responses, outcome>>
    /\ UNCHANGED pureVars
    /\ UNCHANGED sideVars

Next ==
    \/ SelectViews
    \/ ViewNotFound
    \/ IssueQuery
    \/ QuerySucceeds
    \/ QueryFails
    \/ ReturnResults
    \/ PrintResults

Spec == Init /\ [][Next]_vars

(***************************************************************************)
(* Properties of executeBase                                               *)
(***************************************************************************)

\* The view that query i of the log was issued for.
QueriedView(i) == views[queries[i].forView]

\* C1: the `where` of every query is {and: [translate(global), translate(view)]}
\* when the document and the view both carry a filter, the translation of
\* the only filter when one of them does, and absent when neither does.
C1_WhereCombinesFilters ==
    \A i \in DOMAIN queries :
        LET q == queries[i].request
            v == QueriedView(i)
            g == NotNullish(baseFile, "filters")
            f == NotNullish(v, "filters")
        IN  /\ (g /\ f) => /\ Has(q, "where")
                           /\ q.where = [and |-> <<translateFilter(baseFile.filters),
                                                   translateFilter(v.filters)>>]
            /\ (g /\ ~f) => Has(q, "where") /\ q.where = translateFilter(baseFile.filters)
            /\ (~g /\ f) => Has(q, "where") /\ q.where = translateFilter(v.filters)
            /\ (~g /\ ~f) => ~Has(q, "where")

C1_Witness ==
    \E i \in DOMAIN queries :
        /\ NotNullish(baseFile, "filters")
        /\ NotNullish(QueriedView(i), "filters")
        /\ Has(queries[i].request, "where")
        /\ queries[i].request.where
             = [and |-> <<[str |-> <<"a">>],
                          [not |-> [and |-> <<[str |-> <<"x">>], [str |-> <<"a">>]>>]]>>]

\* C3: with no view name given, the views executed are doc.views when that
\* sequence is non-empty and otherwise one synthetic table view, so that a
\* document without `views` and a document with an empty `views` both run
\* one table view with one query and return one result.
C3_EmptyViewsRunOneTableView ==
    (pc = "returned" /\ ~ViewNameGiven(opts)) =>
        IF Has(baseFile, "views") /\ baseFile.views # <<>>
        THEN /\ views = baseFile.views
             /\ Len(outcome.returned) = Len(baseFile.views)
        ELSE /\ views = <<[type |-> S_table]>>
             /\ Len(queries) = 1
             /\ Len(outcome.returned) = 1

SameNameIgnoringCase(view, name) ==
    Has(view, "name") /\ toLowerCase(view.name) = toLowerCase(name)

ExpectedLabel(view) ==
    IF Has(view, "name") THEN view.name
    ELSE <<"(", "u", "n", "n", "a", "m", "e", "d", " ">> \o view.type \o <<")">>

ExpectedNotFoundMessage(vs, name) ==
    <<"v", "i", "e", "w", " ", "n", "o", "t", " ", "f", "o", "u", "n", "d", ":", " ", "\"">>
        \o name
        \o <<"\"", " ", "(", "a", "v", "a", "i", "l", "a", "b", "l", "e", ":", " ">>
        \o join([i \in DOMAIN vs |-> ExpectedLabel(vs[i])], <<",", " ">>)
        \o <<")">>

FailedBeforeAnyQuery == pc = "thrown" /\ queries = <<>>

\* C4: when a view name is given and no view of the working set has it
\* (ignoring case), executeBase throws view_not_found without any query,
\* and the message lists the views of the working set in order, a named
\* view by its name and an unnamed one as "(unnamed <type>)"; a call that
\* went past view selection with a view name runs a view of that name.
C4_ViewNotFoundListsLabels ==
    /\ FailedBeforeAnyQuery =>
          /\ ViewNameGiven(opts)
          /\ \A i \in DOMAIN views : ~SameNameIgnoringCase(views[i], opts.viewName)
          /\ responses = <<>>
          /\ outcome = [thrown |-> [code |-> "view_not_found",
                                    message |-> ExpectedNotFoundMessage(views, opts.viewName)]]
    /\ (ViewNameGiven(opts) /\ pc # "entry" /\ ~FailedBeforeAnyQuery) =>
          /\ Len(views) = 1
          /\ SameNameIgnoringCase(views[1], opts.viewName)
          /\ Has(baseFile, "views")
          /\ views[1] \in Range(baseFile.views)

C4_Witness ==
    /\ FailedBeforeAnyQuery
    /\ views = <<View_alpha, View_cards>>
    /\ opts.viewName = <<"M", "i", "s", "s", "i", "n", "g">>
    /\ outcome.thrown.message =
       <<"v", "i", "e", "w", " ", "n", "o", "t", " ", "f", "o", "u", "n",
         "d", ":", " ", "\"", "M", "i", "s", "s", "i", "n", "g", "\"", " ",
         "(", "a", "v", "a", "i", "l", "a", "b", "l", "e", ":", " ", "A",
         "l", "p", "h", "a", ",", " ", "(", "u", "n", "n", "a", "m", "e",
         "d", " ", "c", "a", "r", "d", "s", ")", ")">>

\* C5: a query that answers with an error is the last thing the invocation
\* does: the call throws that error's code and message unchanged, returns
\* no result of the earlier views, and no further query is issued.
C5_QueryErrorAborts ==
    \A i \in DOMAIN responses :
        Has(responses[i], "error") =>
            /\ pc = "thrown"
            /\ i = Len(responses)
            /\ Len(queries) = i
            /\ outcome = [thrown |-> [code |-> responses[i].error.code,
                                      message |-> responses[i].error.message]]

C5_Witness ==
    /\ pc = "thrown"
    /\ Len(views) = 2
    /\ Len(results) = 1
    /\ results[1].rows # <<>>
    /\ Len(queries) = 2
    /\ Has(responses[2], "error")
    /\ outcome.thrown.code = "unknown_function"

\* C6: one query per executed view and no more, issued in the order of the
\* views, the query of the next view only once the result of the one before
\* is complete, and the results returned in that same order.
C6_OneQueryPerViewInOrder ==
    /\ \A i \in DOMAIN queries : queries[i].forView = i
    /\ Len(queries) <= Len(views)
    /\ Len(results) <= Len(queries)
    /\ Len(queries) <= Len(results) + 1
    /\ (pc = "awaiting") => Len(queries) = Len(results) + 1
    /\ \A i \in DOMAIN results : results[i].view = views[i]
    /\ (pc = "returned") =>
          /\ outcome = [returned |-> results]
          /\ Len(queries) = Len(views)
          /\ Len(results) = Len(views)

C6_Witness ==
    /\ pc = "returned"
    /\ Len(views) = 2
    /\ views[1] # views[2]
    /\ Len(queries) = 2
    /\ outcome.returned[1].view = views[1]
    /\ outcome.returned[2].view = views[2]

\* What auto-detection must yield, as a set: every front-matter key of every
\* row but "type", formula.<k> for every formula key of a row, formula.<name>
\* for every formula the document declares.
ExpectedAutoColumns(file, rows) ==
    ({k \in UNION {Range(Keys(rows[i].frontmatter)) : i \in DOMAIN rows} :
        k # <<"t", "y", "p", "e">>})
    \cup UNION {IF Has(rows[i], "formulas")
                THEN {S_formula \o rows[i].formulas[j].k : j \in DOMAIN rows[i].formulas}
                ELSE {} : i \in DOMAIN rows}
    \cup (IF Has(file, "formulas") /\ file.formulas # <<[null |-> TRUE]>>
          THEN {S_formula \o file.formulas[j].k : j \in DOMAIN file.formulas}
          ELSE {})

FieldsGiven == Has(opts, "fields") /\ opts.fields # <<>>

OrderGiven(view) == Has(view, "order") /\ view.order # <<>>

\* C7: the columns of a result are opts.fields verbatim when that list is
\* non-empty; else view.order with every entry normalized when that list is
\* non-empty; and auto-detected only when both are empty.
C7_ColumnPrecedence ==
    \A i \in DOMAIN results :
        LET r == results[i]
        IN  IF FieldsGiven THEN r.columns = opts.fields
            ELSE IF OrderGiven(r.view)
                 THEN r.columns = [j \in DOMAIN r.view.order |->
                                     normalizePropertyId(r.view.order[j])]
            ELSE Range(r.columns) = ExpectedAutoColumns(baseFile, r.rows)

C7_Witness ==
    \E i \in DOMAIN results :
        /\ FieldsGiven
        /\ opts.fields = <<<<"x">>, P_noteP>>
        /\ OrderGiven(results[i].view)
        /\ results[i].rows # <<>>
        /\ results[i].columns = <<<<"x">>, P_noteP>>

\* C8: on the auto-detect path the columns hold, each once, exactly the
\* front-matter keys of the rows other than "type", formula.<k> for the
\* formula keys of the rows, and formula.<name> for the formulas the
\* document declares, also when no row came back.
C8_AutoDetectedColumns ==
    \A i \in DOMAIN results :
        LET r == results[i]
        IN  (~FieldsGiven /\ ~OrderGiven(r.view)) =>
                /\ Range(r.columns) = ExpectedAutoColumns(baseFile, r.rows)
                /\ Cardinality(Range(r.columns)) = Len(r.columns)

C8_Witness ==
    /\ ~FieldsGiven
    /\ \E i \in DOMAIN results :
          /\ ~OrderGiven(results[i].view)
          /\ results[i].rows = <<>>
          /\ results[i].columns = <<S_formula \o <<"f">>, S_formula \o <<"e">> >>
    /\ \E i \in DOMAIN results :
          /\ ~OrderGiven(results[i].view)
          /\ results[i].rows = <<Row_b, Row_a>>
          /\ results[i].columns
               = << <<"q">>, <<"p">>, S_formula \o <<"f">>, S_formula \o <<"e">> >>

\* C12: the limit of every query is opts.limit when the caller gave one,
\* whatever the limit of the view; else the limit of the view when it has
\* one; else the query carries no limit.
C12_LimitOverrideReplaces ==
    \A i \in DOMAIN queries :
        LET q == queries[i].request
            v == QueriedView(i)
        IN  IF Has(opts, "limit") THEN Has(q, "limit") /\ q.limit = opts.limit
            ELSE IF Has(v, "limit") THEN Has(q, "limit") /\ q.limit = v.limit
            ELSE ~Has(q, "limit")

C12_Witness ==
    \E i \in DOMAIN queries :
        /\ Has(opts, "limit")
        /\ Has(QueriedView(i), "limit")
        /\ opts.limit > QueriedView(i).limit
        /\ Has(queries[i].request, "limit")
        /\ queries[i].request.limit = opts.limit

\* C13: a query carries order_by exactly when its view has a groupBy, and
\* then one sort key: the normalized groupBy.property with the lower-cased
\* groupBy.direction, "asc" when there is no direction; view.order plays no
\* part.
C13_SortFromGroupByOnly ==
    \A i \in DOMAIN queries :
        LET q == queries[i].request
            v == QueriedView(i)
        IN  IF Has(v, "groupBy")
            THEN /\ Has(q, "order_by")
                 /\ q.order_by =
                      <<[field |-> normalizePropertyId(v.groupBy.property),
                         direction |-> IF Has(v.groupBy, "direction")
                                       THEN toLowerCase(v.groupBy.direction)
                                       ELSE <<"a", "s", "c">>]>>
            ELSE ~Has(q, "order_by")

C13_Witness ==
    /\ Len(queries) = 2
    /\ QueriedView(1) = View_cards
    /\ queries[1].request.order_by
         = <<[field |-> <<"p">>, direction |-> <<"d", "e", "s", "c">>]>>
    /\ QueriedView(2) = View_alpha
    /\ ~Has(queries[2].request, "order_by")

\* The formulas of the document, none when the section is absent or null.
DocumentFormulas(file) ==
    IF Has(file, "formulas") /\ file.formulas # <<[null |-> TRUE]>>
    THEN file.formulas
    ELSE <<>>

\* The formulas with a non-empty name and a non-empty string expression.
SurvivingFormulas(file) ==
    SelectSeq(DocumentFormulas(file),
              LAMBDA e : e.k # <<>> /\ Has(e.v, "str") /\ e.v.str # <<>>)

\* C14: the formulas of every query are exactly the document formulas with
\* a non-empty name and a non-empty string expression, each expression
\* translated; when none survives the query carries no `formulas`.
C14_FormulasFilteredOrOmitted ==
    \A i \in DOMAIN queries :
        LET q == queries[i].request
            kept == SurvivingFormulas(baseFile)
        IN  IF kept # <<>>
            THEN /\ Has(q, "formulas")
                 /\ q.formulas = [j \in DOMAIN kept |->
                                    [k |-> kept[j].k, v |-> translateExpression(kept[j].v.str)]]
            ELSE ~Has(q, "formulas")

\* A property id without its leading "note.".
BareId(id) ==
    IF Len(id) >= 5 /\ SubSeq(id, 1, 5) = <<"n", "o", "t", "e", ".">>
    THEN SubSeq(id, 6, Len(id))
    ELSE id

\* The entries of doc.properties that carry a display name.
NamedProperties(file) ==
    IF Has(file, "properties") /\ file.properties # <<[null |-> TRUE]>>
    THEN SelectSeq(file.properties,
                   LAMBDA e : Has(e.v, "displayName") /\ e.v.displayName # <<>>)
    ELSE <<>>

\* The display name the document gives the logical property `bare`: that of
\* the last entry spelling it, <<>> when no entry does.
DeclaredName(file, bare) ==
    LET named == NamedProperties(file)
        hits == {j \in DOMAIN named : BareId(named[j].k) = bare}
    IN  IF hits = {} THEN <<>>
        ELSE <<named[CHOOSE j \in hits : \A h \in hits : h <= j].v.displayName>>

\* The value of displayNames[column], <<>> when the map has no such key.
DisplayNameOf(result, column) ==
    LET hits == {j \in DOMAIN result.displayNames : result.displayNames[j].k = column}
    IN  IF hits = {} THEN <<>> ELSE <<result.displayNames[CHOOSE j \in hits : TRUE].v>>

\* C15: the displayNames of a result hold exactly the properties that carry
\* a display name, each under its id without "note."; a column taken from
\* view.order, spelled `note.p` or `p`, finds there the display name the
\* document declares for p under either spelling, and nothing when the
\* document declares none.
C15_DisplayNamesAgreeWithColumns ==
    \A i \in DOMAIN results :
        LET r == results[i]
            named == NamedProperties(baseFile)
        IN  /\ Range(Keys(r.displayNames)) = {BareId(named[j].k) : j \in DOMAIN named}
            /\ Cardinality(Range(Keys(r.displayNames))) = Len(r.displayNames)
            /\ (~FieldsGiven /\ OrderGiven(r.view)) =>
                  \A c \in DOMAIN r.view.order :
                      DisplayNameOf(r, r.columns[c])
                        = DeclaredName(baseFile, BareId(r.view.order[c]))

C15_Witness ==
    \E i \in DOMAIN results :
        /\ ~FieldsGiven
        /\ results[i].view = View_alpha
        /\ Has(baseFile, "properties")
        /\ baseFile.properties = <<[k |-> P_noteP, v |-> [displayName |-> <<"P">>]],
                                   [k |-> <<"q">>, v |-> <<>>]>>
        /\ results[i].columns[1] = <<"p">>
        /\ DisplayNameOf(results[i], <<"p">>) = <<(<<"P">>)>>
        /\ results[i].columns[2] = <<"q">>
        /\ DisplayNameOf(results[i], <<"q">>) = <<>>

\* The positions of "/" in a path.
Slashes(path) == {i \in DOMAIN path : path[i] = "/"}

LastSlash(path) == CHOOSE i \in Slashes(path) : \A j \in Slashes(path) : j <= i

\* The value stored under `key` in a sequence of entries, null when no entry
\* has that key.
StoredOrNull(entries, key) ==
    IF \E i \in DOMAIN entries : entries[i].k = key
    THEN entries[CHOOSE i \in DOMAIN entries : entries[i].k = key].v
    ELSE [null |-> TRUE]

\* C16: getColumnValue yields, for "file.name", the path after its last "/";
\* for "file.path", the path; for "file.folder", the path before its last
\* "/", the empty string when it has no "/"; for "formula.<name>", the value
\* of <name> in the formula values of the row and in nothing else; for any
\* other column, the value of that key in the front matter; and null when
\* the key is absent.
C16_ColumnValuePrecedence ==
    (fn = "getColumnValue" /\ Len(ret) = 1) =>
        LET row == arg.row
            column == arg.column
            path == row.path
        IN  IF column = <<"f", "i", "l", "e", ".", "n", "a", "m", "e">>
            THEN ret[1] = [str |-> IF Slashes(path) = {} THEN path
                                   ELSE SubSeq(path, LastSlash(path) + 1, Len(path))]
            ELSE IF column = <<"f", "i", "l", "e", ".", "p", "a", "t", "h">>
            THEN ret[1] = [str |-> path]
            ELSE IF column = <<"f", "i", "l", "e", ".", "f", "o", "l", "d", "e", "r">>
            THEN ret[1] = [str |-> IF Slashes(path) = {} THEN <<>>
                                   ELSE SubSeq(path, 1, LastSlash(path) - 1)]
            ELSE IF Len(column) >= 8
                    /\ SubSeq(column, 1, 8) = <<"f", "o", "r", "m", "u", "l", "a", ".">>
            THEN ret[1] = IF "formulas" \in DOMAIN row
                          THEN StoredOrNull(row.formulas, SubSeq(column, 9, Len(column)))
                          ELSE [null |-> TRUE]
            ELSE ret[1] = StoredOrNull(row.frontmatter, column)

C16_Witness ==
    /\ fn = "getColumnValue"
    /\ Len(ret) = 1
    /\ arg.column = <<"f", "i", "l", "e", ".", "f", "o", "l", "d", "e", "r">>
    /\ arg.row.path = <<"d", "/", "d", "/", "a", ".", "m", "d">>
    /\ ret[1] = [str |-> <<"d", "/", "d">>]

\* What parseBaseFile returned is a document and no error.
ReturnedDocument(result) == "base" \in DOMAIN result /\ "error" \notin DOMAIN result

\* What parseBaseFile returned is an error and no document.
ReturnedError(result) == "error" \in DOMAIN result /\ "base" \notin DOMAIN result

\* The top level is a scalar: a string, a number, a boolean or a timestamp.
IsScalar(value) == DOMAIN value \cap {"str", "num", "bool", "date"} # {}

\* C17: parseBaseFile returns a document with every section empty for an
\* empty or null input; an error and no document when the top level is a
\* sequence or a scalar; and exactly one of document and error always.
C17_ParseTotalAndStructural ==
    (fn = "parseBaseFile" /\ Len(ret) = 1) =>
        /\ ReturnedDocument(ret[1]) \/ ReturnedError(ret[1])
        /\ ("loaded" \in DOMAIN arg /\ arg.loaded \in {[undefined |-> TRUE], [null |-> TRUE]})
              => ret[1] = [base |-> <<>>]
        /\ ("loaded" \in DOMAIN arg /\ ("seq" \in DOMAIN arg.loaded \/ IsScalar(arg.loaded)))
              => ReturnedError(ret[1])

\* C18: of a top-level mapping, the parsed document holds `formulas`,
\* `properties` and `summaries` exactly when they are mappings and `views`
\* exactly when it is a sequence; a section of any other shape is absent
\* from the document and parsing still returns the document (a `views`
\* sequence holding a null entry set aside).
C18_SectionsKeptOnlyInShape ==
    (fn = "parseBaseFile" /\ Len(ret) = 1 /\ "loaded" \in DOMAIN arg
        /\ "map" \in DOMAIN arg.loaded) =>
        LET raw == arg.loaded.map
            viewsSound == ("views" \in DOMAIN raw /\ "seq" \in DOMAIN raw.views) =>
                              \A i \in DOMAIN raw.views.seq : raw.views.seq[i] # [null |-> TRUE]
        IN  /\ viewsSound => ReturnedDocument(ret[1])
            /\ ReturnedDocument(ret[1]) =>
                  /\ \A k \in {"formulas", "properties", "summaries"} :
                        k \in DOMAIN ret[1].base
                          <=> (k \in DOMAIN raw /\ "map" \in DOMAIN raw[k])
                  /\ "views" \in DOMAIN ret[1].base
                          <=> ("views" \in DOMAIN raw /\ "seq" \in DOMAIN raw.views)

\* The keys of a JSON object, in order.
ObjectKeys(value) == [i \in DOMAIN value.object |-> value.object[i].k]

\* The member `key` of a JSON object.
ObjectMember(value, key) ==
    value.object[CHOOSE i \in DOMAIN value.object : value.object[i].k = key].v

\* A JSON value is the object printed for `result`: members view, columns,
\* results and meta, the columns of the result, one row object per row and
\* its total count.
IsViewObject(value, result) ==
    /\ "object" \in DOMAIN value
    /\ ObjectKeys(value) = << <<"v", "i", "e", "w">>, <<"c", "o", "l", "u", "m", "n", "s">>,
                              <<"r", "e", "s", "u", "l", "t", "s">>, <<"m", "e", "t", "a">> >>
    /\ ObjectMember(value, <<"c", "o", "l", "u", "m", "n", "s">>)
         = [array |-> [i \in DOMAIN result.columns |-> [str |-> result.columns[i]]]]
    /\ Len(ObjectMember(value, <<"r", "e", "s", "u", "l", "t", "s">>).array) = Len(result.rows)
    /\ ObjectMember(ObjectMember(value, <<"m", "e", "t", "a">>),
                    <<"t", "o", "t", "a", "l", "_", "c", "o", "u", "n", "t">>)
         = [num |-> result.totalCount]

\* C19: printed as json, one result is one bare object and two or more
\* results are an array of objects of that same shape, one per result in
\* order; only the number of results decides, so one view selected by name
\* out of several prints a bare object.
C19_JsonUnwrapsSingleResult ==
    (pc = "printed" /\ format = "json") =>
        /\ Len(stdout) = 1
        /\ "json" \in DOMAIN stdout[1]
        /\ Len(results) = 1 => IsViewObject(stdout[1].json, results[1])
        /\ Len(results) >= 2 =>
              /\ "array" \in DOMAIN stdout[1].json
              /\ Len(stdout[1].json.array) = Len(results)
              /\ \A i \in DOMAIN results : IsViewObject(stdout[1].json.array[i], results[i])

C19_Witness ==
    /\ pc = "printed"
    /\ format = "json"
    /\ Has(baseFile, "views")
    /\ Len(baseFile.views) = 2
    /\ ViewNameGiven(opts)
    /\ Len(results) = 1
    /\ results[1].rows # <<>>
    /\ IsViewObject(stdout[1].json, results[1])

\* Every row path of the results, in the order of the views and their rows.
PathsInOrder ==
    LET RECURSIVE from(_)
        from(i) == IF i > Len(results) THEN <<>>
                   ELSE [j \in DOMAIN results[i].rows |-> results[i].rows[j].path] \o from(i + 1)
    IN  from(1)

\* The position at which a path first occurs in a sequence of paths.
FirstAt(paths, path) ==
    CHOOSE i \in DOMAIN paths : paths[i] = path /\ \A j \in 1..(i - 1) : paths[j] # path

\* C20: printed as paths, every row path of any result is written exactly
\* once, one per line, and the lines are in the order in which the paths
\* first occur across the views and their rows.
C20_PathsOnceInFirstSeenOrder ==
    (pc = "printed" /\ format = "paths") =>
        LET all == PathsInOrder
        IN  /\ \A i \in DOMAIN stdout : "text" \in DOMAIN stdout[i]
            /\ {stdout[i].text : i \in DOMAIN stdout} = Range(all)
            /\ Cardinality(Range(all)) = Len(stdout)
            /\ \A a, b \in DOMAIN stdout :
                  a < b => FirstAt(all, stdout[a].text) < FirstAt(all, stdout[b].text)

C20_Witness ==
    /\ pc = "printed"
    /\ format = "paths"
    /\ Len(results) = 2
    /\ results[1].rows = <<Row_a>>
    /\ results[2].rows = <<Row_b, Row_a>>
    /\ stdout = <<[text |-> <<"a", ".", "m", "d">>],
                  [text |-> <<"d", "/", "b", ".", "m", "d">>]>>

(***************************************************************************)
(* base run  (commands/base.ts)                                            *)
(*                                                                         *)
(* The action callback of `base run`: parseBaseFilePath, Collection.open,  *)
(* executeBase, printResults, process.exit.  executeBase is an async       *)
(* function and the callback does not await it: what printResults is given *)
(* is the promise, whatever it later settles to.                           *)
(***************************************************************************)

S_fileNotFound == <<"f", "i", "l", "e", " ", "n", "o", "t", " ", "f", "o", "u", "n", "d">>

S_permissionDenied == <<"p", "e", "r", "m", "i", "s", "s", "i", "o", "n", " ", "d", "e", "n", "i", "e", "d">>

S_errorPrefix == <<"e", "r", "r", "o", "r", ":", " ">>

S_basePath == <<"/", "c", "/", "v", ".", "b", "a", "s", "e">>

S_noCollection == <<"N", "o", " ", "m", "d", "b", "a", "s", "e", ".", "y", "a", "m", "l", " ", "f", "o", "u", "n", "d">>

\* parseBaseFilePath: what it returns for the file named on the command line.
ParseResults ==
    { [base |-> <<>>],
      [error |-> [message |-> S_fileNotFound \o <<":", " ">> \o S_basePath]],
      [error |-> [message |-> S_permissionDenied \o <<":", " ">> \o S_basePath]],
      [error |-> [message |-> S_expectedMapping]] }

\* Collection.open: what it returns for the working directory.
OpenResults ==
    { [collection |-> "collection"],
      [error |-> [code |-> "missing_config", message |-> S_noCollection]] }

\* What the promise of executeBase settles to.
Settlements ==
    { [fulfilled |-> <<>>],
      [rejected |-> viewNotFoundError(<<View_alpha>>, <<"M", "i", "s", "s", "i", "n", "g">>)],
      [rejected |-> [code |-> "invalid_expression", message |-> <<"b", "a", "d">>]] }

\* --format
RunFormats == {"table", "json", "yaml", "jsonl", "csv", "paths"}

RunInputs ==
    { [parseResult |-> p, openResult |-> o, settlement |-> e, format |-> f] :
        p \in ParseResults, o \in OpenResults, e \in Settlements, f \in RunFormats }

\* printResults applied to a promise: printJSON and printYAML call
\* results.map, printJSONL, printCSV and printPaths iterate results, and
\* both throw a TypeError; the loop of printTable runs while
\* i < results.length, which is undefined, and prints nothing.
printResultsOfPromise(fmt) ==
    IF fmt \in {"json", "yaml", "jsonl", "csv", "paths"}
    THEN [thrown |-> "TypeError"]
    ELSE [lines |-> <<>>]

\* The output of an error: the JSON document on stdout for --format json,
\* the message on stderr otherwise.
errorOut(fmt, error) ==
    IF fmt = "json" THEN [stdout |-> <<[json |-> [error |-> error]]>>, stderr |-> <<>>]
    ELSE [stdout |-> <<>>, stderr |-> <<[text |-> S_errorPrefix \o error.message]>>]

InitRun ==
    /\ ExecIdle
    /\ PureIdle
    /\ RegIdle
    /\ CliIdle
    /\ ImpIdle
    /\ WatchIdle
    /\ runArgs \in RunInputs
    /\ runPc = "start"
    /\ exitCode = -1
    /\ runStdout = <<>>
    /\ runStderr = <<>>

\* Parse .base file
RunParse ==
    /\ runPc = "start"
    /\ LET parseResult == runArgs.parseResult
       IN  IF Has(parseResult, "error")
           THEN LET isNotFound == startsWith(parseResult.error.message, S_fileNotFound)
                    isPermDenied == startsWith(parseResult.error.message, S_permissionDenied)
                    out == errorOut(runArgs.format, parseResult.error)
                IN  /\ runStdout' = runStdout \o out.stdout
                    /\ runStderr' = runStderr \o out.stderr
                    /\ exitCode' = IF isNotFound THEN 4 ELSE IF isPermDenied THEN 5 ELSE 1
                    /\ runPc' = "exited"
           ELSE /\ runPc' = "parsed"
                /\ UNCHANGED <<exitCode, runStdout, runStderr>>
    /\ UNCHANGED runArgs
    /\ UNCHANGED <<execVars, pureVars, regVars, cliVars, impVars, watchVars>>

\* Open collection
RunOpen ==
    /\ runPc = "parsed"
    /\ LET openResult == runArgs.openResult
       IN  IF Has(openResult, "error")
           THEN LET out == errorOut(runArgs.format, openResult.error)
                IN  /\ runStdout' = runStdout \o out.stdout
                    /\ runStderr' = runStderr \o out.stderr
                    /\ exitCode' = 3
                    /\ runPc' = "exited"
           ELSE /\ runPc' = "opened"
                /\ UNCHANGED <<exitCode, runStdout, runStderr>>
    /\ UNCHANGED runArgs
    /\ UNCHANGED <<execVars, pureVars, regVars, cliVars, impVars, watchVars>>

\* Execute: the try block.  The call of executeBase cannot throw, it
\* returns the promise; an error of printResults is not a
\* BaseExecutionError and is thrown on, which rejects the callback and ends
\* the process with code 1.
RunExecute ==
    /\ runPc = "opened"
    /\ LET printed == printResultsOfPromise(runArgs.format)
       IN  IF Has(printed, "thrown")
           THEN /\ exitCode' = 1
                /\ runPc' = "uncaught"
                /\ runStderr' = Append(runStderr, [uncaught |-> printed.thrown])
                /\ UNCHANGED runStdout
           ELSE /\ runStdout' = runStdout \o printed.lines
                /\ exitCode' = 0
                /\ runPc' = "exited"
                /\ UNCHANGED runStderr
    /\ UNCHANGED runArgs
    /\ UNCHANGED <<execVars, pureVars, regVars, cliVars, impVars, watchVars>>

NextRun == RunParse \/ RunOpen \/ RunExecute

SpecRun == InitRun /\ [][NextRun]_vars

\* Whether an output line is result output, not the report of an error.
IsResultLine(line) == ~("error" \in DOMAIN line) /\ ~("json" \in DOMAIN line /\ "error" \in DOMAIN line.json)

\* The exit code the first failing step of a run calls for, 0 when the file
\* parses, the collection opens and the execution succeeds.
ExitCodeCalledFor ==
    IF Has(runArgs.parseResult, "error")
    THEN IF startsWith(runArgs.parseResult.error.message, S_fileNotFound) THEN 4
         ELSE IF startsWith(runArgs.parseResult.error.message, S_permissionDenied) THEN 5
         ELSE 1
    ELSE IF Has(runArgs.openResult, "error") THEN 3
    ELSE IF Has(runArgs.settlement, "rejected") THEN 1
    ELSE 0

\* C22: a finished `base run` has the exit code of its first failing step
\* in the order parse (4 for file not found, 5 for permission denied, 1
\* otherwise), open (3), execute (1), and 0 when all three succeed; a
\* failing run writes no result output.
C22_ExitCodeOfFirstFailingStep ==
    runPc \in {"exited", "uncaught"} =>
        /\ exitCode = ExitCodeCalledFor
        /\ ExitCodeCalledFor # 0 => \A i \in DOMAIN runStdout : ~IsResultLine(runStdout[i])

(***************************************************************************)
(* The registry of collections  (collections/registry.ts)                  *)
(*                                                                         *)
(* An entry is [alias, path, added_at, updated_at] with collection_name    *)
(* when the configuration names the collection.  The registry file is kept *)
(* as its `collections` array; JSON.stringify and JSON.parse are inverse   *)
(* on such entries.  A RegistryError is kept as [error |-> code].  Paths   *)
(* are absolute, so path.resolve(process.cwd(), p) is p.                   *)
(***************************************************************************)

S_configFile == <<"m", "d", "b", "a", "s", "e", ".", "y", "a", "m", "l">>

P_p == <<"/", "p">>

P_q == <<"/", "q">>

P_link == <<"/", "l">>

P_empty == <<"/", "e">>

P_invalid == <<"/", "i">>

P_missing == <<"/", "n">>

\* The directories of the file system, and those with an mdbase.yaml.
Directories == {P_p, P_q, P_empty, P_invalid}

Configured == {P_p, P_q, P_invalid}

\* path.join(dir, name)
pathJoin(dir, name) == dir \o S_slash \o name

\* path.basename
basename(path) == split(path, S_slash)[Len(split(path, S_slash))]

\* path.dirname, for a path with a directory part
dirname(path) ==
    LET parts == split(path, S_slash) IN join(SubSeq(parts, 1, Len(parts) - 1), S_slash)

\* fs.promises.realpath: /l is a symbolic link to /p.
realpath(path) ==
    IF startsWith(path, P_link) THEN P_p \o slice(path, Len(P_link)) ELSE path

\* fs.promises.stat: <<>> when it throws.
stat(path) ==
    IF realpath(path) \in Directories THEN <<[isFile |-> FALSE, isDirectory |-> TRUE]>>
    ELSE IF realpath(path) \in {pathJoin(d, S_configFile) : d \in Configured}
    THEN <<[isFile |-> TRUE, isDirectory |-> FALSE]>>
    ELSE <<>>

\* fs.existsSync
existsSync(path) == stat(path) # <<>>

\* loadConfig: /p names its collection, /q does not, /i does not load.
loadConfig(root) ==
    IF realpath(root) = P_p THEN [valid |-> TRUE, config |-> [name |-> <<"P">>]]
    ELSE IF realpath(root) = P_q THEN [valid |-> TRUE, config |-> <<>>]
    ELSE [valid |-> FALSE]

RECURSIVE trimStart(_)
trimStart(s) == IF s # <<>> /\ Head(s) = " " THEN trimStart(Tail(s)) ELSE s

RECURSIVE trimEnd(_)
trimEnd(s) == IF s # <<>> /\ s[Len(s)] = " " THEN trimEnd(SubSeq(s, 1, Len(s) - 1)) ELSE s

\* String.prototype.trim
trim(s) == trimEnd(trimStart(s))

\* [value |-> the trimmed alias], or the error thrown.
normalizeAlias(alias) ==
    IF trim(alias) = S_empty THEN [error |-> "invalid_alias"] ELSE [value |-> trim(alias)]

aliasesEqual(a, b) == toLowerCase(a) = toLowerCase(b)

\* The rank of a character in the collation: letters in alphabetical
\* order, anything else before them.
CollationRank(c) ==
    IF ToLowerChar(c) \in Range(LowerCase)
    THEN CHOOSE i \in DOMAIN LowerCase : LowerCase[i] = ToLowerChar(c)
    ELSE 0

RECURSIVE compareRanks(_, _)
\* A lexicographic comparison of two sequences of ranks: negative, zero or
\* positive.
compareRanks(a, b) ==
    IF a = <<>> /\ b = <<>> THEN 0
    ELSE IF a = <<>> THEN -1
    ELSE IF b = <<>> THEN 1
    ELSE IF Head(a) # Head(b) THEN Head(a) - Head(b)
    ELSE compareRanks(Tail(a), Tail(b))

\* Upper case sorts after lower case when nothing else tells two strings
\* apart.
CaseRank(c) == IF c \in Range(UpperCase) THEN 1 ELSE 0

\* String.prototype.localeCompare: by letters first, by case second.
localeCompare(a, b) ==
    LET byLetter == compareRanks([i \in DOMAIN a |-> CollationRank(a[i])],
                                 [i \in DOMAIN b |-> CollationRank(b[i])])
    IN  IF byLetter # 0 THEN byLetter
        ELSE compareRanks([i \in DOMAIN a |-> CaseRank(a[i])],
                          [i \in DOMAIN b |-> CaseRank(b[i])])

RECURSIVE insertSorted(_, _)
\* e placed after the last entry of a sorted sequence that does not sort
\* after it.
insertSorted(sorted, e) ==
    IF sorted = <<>> THEN <<e>>
    ELSE IF localeCompare(sorted[Len(sorted)].alias, e.alias) <= 0 THEN Append(sorted, e)
    ELSE Append(insertSorted(SubSeq(sorted, 1, Len(sorted) - 1), e), sorted[Len(sorted)])

RECURSIVE sortByAlias(_)
\* entries.sort((a, b) => a.alias.localeCompare(b.alias)), a stable sort
sortByAlias(entries) ==
    IF entries = <<>> THEN <<>>
    ELSE insertSorted(sortByAlias(SubSeq(entries, 1, Len(entries) - 1)), entries[Len(entries)])

\* The entries read from a registry file (none when there is no file).
readRegistry(file) == sortByAlias(file)

\* The `collections` array written to the registry file.
writeRegistry(entries) == sortByAlias(entries)

\* [value |-> the canonical path of the collection], or the error thrown.
resolveCollectionPath(inputPath) ==
    IF trim(inputPath) = S_empty THEN [error |-> "invalid_path"]
    ELSE IF stat(inputPath) = <<>> THEN [error |-> "path_not_found"]
    ELSE LET collectionRoot == IF stat(inputPath)[1].isFile /\ basename(inputPath) = S_configFile
                               THEN dirname(inputPath)
                               ELSE inputPath
         IN  IF stat(collectionRoot) = <<>> THEN [error |-> "path_not_found"]
             ELSE IF ~stat(collectionRoot)[1].isDirectory THEN [error |-> "invalid_path"]
             ELSE IF ~existsSync(pathJoin(collectionRoot, S_configFile))
             THEN [error |-> "missing_config"]
             ELSE IF ~loadConfig(collectionRoot).valid THEN [error |-> "invalid_config"]
             ELSE [value |-> realpath(collectionRoot)]

\* The metadata as a record to merge into the entry.
loadCollectionMetadata(collectionRoot) ==
    LET configResult == loadConfig(collectionRoot)
    IN  IF configResult.valid /\ Has(configResult.config, "name")
        THEN [collection_name |-> configResult.config.name]
        ELSE <<>>

\* Index of the entry entries.find returns, 0 for undefined.
findByAlias(entries, alias) ==
    IF \E i \in DOMAIN entries : aliasesEqual(entries[i].alias, alias)
    THEN CHOOSE i \in DOMAIN entries :
            /\ aliasesEqual(entries[i].alias, alias)
            /\ \A j \in 1..(i - 1) : ~aliasesEqual(entries[j].alias, alias)
    ELSE 0

\* A variant of addCollectionOn without the test of the path.
addCollectionOn_anyPath(entries, normalizedAlias, canonicalPath, now) ==
    IF findByAlias(entries, normalizedAlias) # 0 THEN [error |-> "alias_exists"]
    ELSE LET entry == loadCollectionMetadata(canonicalPath)
                      @@ [alias |-> normalizedAlias, path |-> canonicalPath,
                          added_at |-> now, updated_at |-> now]
         IN  [entry |-> entry, written |-> writeRegistry(Append(entries, entry))]

\* A variant of addCollectionOn that pushes and writes the entry before it
\* tests the path.
addCollectionOn_writeFirst(entries, normalizedAlias, canonicalPath, now) ==
    LET entry == loadCollectionMetadata(canonicalPath)
                 @@ [alias |-> normalizedAlias, path |-> canonicalPath,
                     added_at |-> now, updated_at |-> now]
    IN  IF findByAlias(entries, normalizedAlias) # 0 THEN [error |-> "alias_exists"]
        ELSE IF \E i \in DOMAIN entries : entries[i].path = canonicalPath
        THEN [error |-> "path_exists", written |-> writeRegistry(Append(entries, entry))]
        ELSE [entry |-> entry, written |-> writeRegistry(Append(entries, entry))]

\* addCollection from the entries it read on: the error thrown, or the
\* entry returned and the array written.
addCollectionOn(entries, normalizedAlias, canonicalPath, now) ==
    IF findByAlias(entries, normalizedAlias) # 0 THEN [error |-> "alias_exists"]
    ELSE IF \E i \in DOMAIN entries : entries[i].path = canonicalPath
    THEN [error |-> "path_exists"]
    ELSE LET entry == loadCollectionMetadata(canonicalPath)
                      @@ [alias |-> normalizedAlias, path |-> canonicalPath,
                          added_at |-> now, updated_at |-> now]
         IN  [entry |-> entry, written |-> writeRegistry(Append(entries, entry))]

showCollection(file, alias) ==
    IF Has(normalizeAlias(alias), "error") THEN normalizeAlias(alias)
    ELSE LET entries == readRegistry(file)
             at == findByAlias(entries, normalizeAlias(alias).value)
         IN  IF at = 0 THEN [error |-> "collection_not_found"] ELSE [entry |-> entries[at]]

\* removeCollection from the entries it read on.
removeCollectionOn(entries, normalizedAlias) ==
    LET idx0 == findByAlias(entries, normalizedAlias)
    IN  IF idx0 = 0 THEN [error |-> "collection_not_found"]
        ELSE [entry |-> entries[idx0],
              written |-> writeRegistry(SubSeq(entries, 1, idx0 - 1)
                                        \o SubSeq(entries, idx0 + 1, Len(entries)))]

\* A variant of renameCollectionOn that stamps added_at too.
renameCollectionOn_restamped(entries, oldNormalized, newNormalized, now) ==
    LET at == findByAlias(entries, oldNormalized)
    IN  IF at = 0 THEN [error |-> "collection_not_found"]
        ELSE IF findByAlias(entries, newNormalized) # 0 THEN [error |-> "alias_exists"]
        ELSE LET entry == [entries[at] EXCEPT !.alias = newNormalized, !.added_at = now,
                                              !.updated_at = now]
             IN  [entry |-> entry, written |-> writeRegistry([entries EXCEPT ![at] = entry])]

\* renameCollection from the entries it read on.
renameCollectionOn(entries, oldNormalized, newNormalized, now) ==
    LET at == findByAlias(entries, oldNormalized)
    IN  IF at = 0 THEN [error |-> "collection_not_found"]
        ELSE IF findByAlias(entries, newNormalized) # 0 THEN [error |-> "alias_exists"]
        ELSE LET entry == [entries[at] EXCEPT !.alias = newNormalized, !.updated_at = now]
             IN  [entry |-> entry, written |-> writeRegistry([entries EXCEPT ![at] = entry])]

\* What an operation does before it reads the registry: the error thrown,
\* or the normalized arguments.
prepare(call) ==
    IF call.op = "add"
    THEN IF Has(normalizeAlias(call.alias), "error") THEN normalizeAlias(call.alias)
         ELSE IF Has(resolveCollectionPath(call.path), "error")
         THEN resolveCollectionPath(call.path)
         ELSE [op |-> "add", alias |-> normalizeAlias(call.alias).value,
               path |-> resolveCollectionPath(call.path).value]
    ELSE IF call.op = "remove"
    THEN IF Has(normalizeAlias(call.alias), "error") THEN normalizeAlias(call.alias)
         ELSE [op |-> "remove", alias |-> normalizeAlias(call.alias).value]
    ELSE IF Has(normalizeAlias(call.alias), "error") THEN normalizeAlias(call.alias)
         ELSE IF Has(normalizeAlias(call.newAlias), "error") THEN normalizeAlias(call.newAlias)
         ELSE IF aliasesEqual(normalizeAlias(call.alias).value, normalizeAlias(call.newAlias).value)
         THEN [error |-> "invalid_alias"]
         ELSE [op |-> "rename", alias |-> normalizeAlias(call.alias).value,
               newAlias |-> normalizeAlias(call.newAlias).value]

\* What a prepared operation does from the entries it read on.
settle(prepared, entries, now) ==
    IF prepared.op = "add" THEN addCollectionOn(entries, prepared.alias, prepared.path, now)
    ELSE IF prepared.op = "remove" THEN removeCollectionOn(entries, prepared.alias)
    ELSE renameCollectionOn(entries, prepared.alias, prepared.newAlias, now)

\* The outcome of a settled operation as its caller sees it.
Outcome(result) == IF Has(result, "error") THEN [error |-> result.error] ELSE [entry |-> result.entry]

\* How many registry operations a run holds.
MaxOps == 3

AliasInputs == {<<"a">>, <<" ", "A", " ">>, <<"b">>, <<"c">>, <<" ">>}

CollectionPathInputs ==
    {P_p, pathJoin(P_p, S_configFile), P_link, P_q, P_empty, P_invalid, P_missing, S_empty}

RegistryCalls ==
    {[op |-> "add", alias |-> a, path |-> q] : a \in AliasInputs, q \in CollectionPathInputs}
    \cup {[op |-> "remove", alias |-> a] : a \in AliasInputs}
    \cup {[op |-> "rename", alias |-> a, newAlias |-> b] : a \in AliasInputs, b \in AliasInputs}

InitRegistry ==
    /\ ExecIdle
    /\ PureIdle
    /\ RunIdle
    /\ RegIdle
    /\ CliIdle
    /\ ImpIdle
    /\ WatchIdle

\* One operation from its call to its settlement, nothing else in between.
RegistryOperation(call) ==
    /\ regClock < MaxOps
    /\ regClock' = regClock + 1
    /\ LET prepared == prepare(call)
           result == IF Has(prepared, "error") THEN prepared
                     ELSE settle(prepared, readRegistry(registryFile), regClock)
       IN  /\ registryFile' = IF Has(result, "written") THEN result.written ELSE registryFile
           /\ regLast' = [call |-> call, outcome |-> Outcome(result)]
    /\ UNCHANGED regProcs
    /\ UNCHANGED <<execVars, pureVars, runVars, cliVars, impVars, watchVars>>

AddCollection == \E call \in RegistryCalls : call.op = "add" /\ RegistryOperation(call)

RemoveCollection == \E call \in RegistryCalls : call.op = "remove" /\ RegistryOperation(call)

RenameCollection == \E call \in RegistryCalls : call.op = "rename" /\ RegistryOperation(call)

NextRegistry == AddCollection \/ RemoveCollection \/ RenameCollection

SpecRegistry == InitRegistry /\ [][NextRegistry]_vars

\* ---- the registry with callers whose operations interleave ----
\*
\* Every operation awaits readRegistry and later writeRegistry; another
\* caller (of this process or of another one) may run between the two.

\* The caller starts an operation: it throws before reading, or reads the
\* registry and goes on to await.
BeginOperation(p, call) ==
    /\ regProcs[p] = <<>>
    /\ regClock < MaxOps
    /\ regClock' = regClock + 1
    /\ LET prepared == prepare(call)
       IN  IF Has(prepared, "error")
           THEN /\ regLast' = [call |-> call, outcome |-> Outcome(prepared)]
                /\ UNCHANGED regProcs
           ELSE /\ regProcs' = [regProcs EXCEPT ![p] = [call |-> call, prepared |-> prepared,
                                                        entries |-> readRegistry(registryFile)]]
                /\ UNCHANGED regLast
    /\ UNCHANGED registryFile
    /\ UNCHANGED <<execVars, pureVars, runVars, cliVars, impVars, watchVars>>

\* The caller goes on from the entries it read: it throws, or writes the
\* registry and returns.
FinishOperation(p) ==
    /\ regProcs[p] # <<>>
    /\ LET result == settle(regProcs[p].prepared, regProcs[p].entries, regClock)
       IN  /\ registryFile' = IF Has(result, "written") THEN result.written ELSE registryFile
           /\ regLast' = [call |-> regProcs[p].call, outcome |-> Outcome(result)]
    /\ regProcs' = [regProcs EXCEPT ![p] = <<>>]
    /\ UNCHANGED regClock
    /\ UNCHANGED <<execVars, pureVars, runVars, cliVars, impVars, watchVars>>

\* The calls of interleaved callers: two aliases, two collections and a
\* path that is none, an alias that is none.
RaceCalls ==
    {call \in RegistryCalls :
        /\ call.alias \in {<<"a">>, <<"b">>}
        /\ call.op = "add" => call.path \in {P_p, P_q, P_missing}
        /\ call.op = "rename" => call.newAlias \in {<<"a">>, <<"b">>, <<" ">>}}

NextRegistryRace ==
    \/ \E p \in Procs, call \in RaceCalls : BeginOperation(p, call)
    \/ \E p \in Procs : FinishOperation(p)

SpecRegistryRace == InitRegistry /\ [][NextRegistryRace]_vars

(***************************************************************************)
(* The global --collection option  (cli.ts)                                *)
(*                                                                         *)
(* The preAction hook of the program and the action it precedes.  An error *)
(* is kept as [code |-> c], as in the registry.                            *)
(***************************************************************************)

S_collections == <<"c", "o", "l", "l", "e", "c", "t", "i", "o", "n", "s">>

S_collection == <<"c", "o", "l", "l", "e", "c", "t", "i", "o", "n">>

S_init == <<"i", "n", "i", "t">>

S_mdbase == <<"m", "d", "b", "a", "s", "e">>

P_file == pathJoin(P_q, S_configFile)

P_cwd == <<"/", "w">>

\* Command.name() of the command a word of the command line selects: the
\* group `collections` has the alias `collection`.
commandName(word) == IF word = S_collection THEN S_collections ELSE word

\* commandPathNames: the names from the program down to the command.
commandPathNames(words) == <<S_mdbase>> \o [i \in DOMAIN words |-> commandName(words[i])]

\* A variant that resolves the alias for `init` too.
shouldSkipCollectionResolution_groupOnly(words) ==
    LET names == commandPathNames(words)
    IN  S_collections \in Range(names) \/ S_collection \in Range(names)

shouldSkipCollectionResolution(words) ==
    LET names == commandPathNames(words)
    IN  IF S_collections \in Range(names) \/ S_collection \in Range(names) THEN TRUE
        ELSE names[Len(names)] = S_init

\* [value |-> root], or the CollectionOptionError thrown.
resolveCollectionRoot(file, alias) ==
    LET shown == showCollection(file, alias)
    IN  IF Has(shown, "error") THEN [error |-> [code |-> shown.error]]
        ELSE LET root == shown.entry.path
             IN  IF stat(root) = <<>> THEN [error |-> [code |-> "path_not_found"]]
                 ELSE IF ~stat(root)[1].isDirectory THEN [error |-> [code |-> "invalid_path"]]
                 ELSE IF ~existsSync(pathJoin(root, S_configFile))
                 THEN [error |-> [code |-> "missing_config"]]
                 ELSE IF ~loadConfig(root).valid THEN [error |-> [code |-> "invalid_config"]]
                 ELSE [value |-> root]

\* outputCollectionOptionError: what it writes and the code it exits with.
outputCollectionOptionError(options, error) ==
    [stdout |-> IF Has(options, "format") /\ options.format = "json"
                THEN <<[json |-> [error |-> error]]>> ELSE <<>>,
     stderr |-> IF Has(options, "format") /\ options.format = "json"
                THEN <<>> ELSE <<[errorLine |-> error]>>,
     exitCode |-> IF error.code = "path_not_found" THEN 4
                  ELSE IF error.code \in {"missing_config", "invalid_config"} THEN 3
                  ELSE 1]

\* An entry of a registry file.
RegistryEntry(alias, path) == [alias |-> alias, path |-> path, added_at |-> 0, updated_at |-> 0]

\* The registries the command line finds: none, and one whose entries are a
\* collection, a path that is gone, a directory without configuration, one
\* whose configuration does not load, and a file.
CliRegistries ==
    { <<>>,
      <<RegistryEntry(<<"a">>, P_p), RegistryEntry(<<"b">>, P_missing),
        RegistryEntry(<<"c">>, P_empty), RegistryEntry(<<"d">>, P_invalid),
        RegistryEntry(<<"e">>, P_file)>> }

\* The commands: the words after the options.
CliCommands ==
    { <<<<"q", "u", "e", "r", "y">>>>, <<<<"r", "e", "a", "d">>>>, <<S_init>>,
      <<<<"b", "a", "s", "e">>, <<"r", "u", "n">>>>,
      <<S_collections, <<"l", "i", "s", "t">>>>,
      <<S_collection, <<"l", "i", "s", "t">>>> }

\* The options: --collection and --format, each given or not.
CliOptions ==
    LET aliases == {S_empty, <<" ">>, <<"a">>, <<" ", "A", " ">>, <<"b">>, <<"c">>, <<"d">>,
                    <<"e">>, <<"z">>}
    IN  {f @@ c : f \in {<<>>, [format |-> "json"], [format |-> "table"]},
                  c \in {<<>>} \cup {[collection |-> a] : a \in aliases}}

InitCli ==
    /\ ExecIdle
    /\ PureIdle
    /\ RunIdle
    /\ RegIdle
    /\ ImpIdle
    /\ WatchIdle
    /\ cliArgs \in [command : CliCommands, options : CliOptions, registry : CliRegistries]
    /\ cliPc = "start"
    /\ cliExit = -1
    /\ cliStdout = <<>>
    /\ cliStderr = <<>>
    /\ cwd = P_cwd
    /\ actionCwd = <<>>

\* The preAction hook.
PreAction ==
    /\ cliPc = "start"
    /\ LET options == cliArgs.options
           aliasGiven == Has(options, "collection") /\ options.collection # S_empty
       IN  IF ~aliasGiven \/ shouldSkipCollectionResolution(cliArgs.command)
           THEN /\ cliPc' = "action"
                /\ UNCHANGED <<cliExit, cliStdout, cliStderr, cwd>>
           ELSE LET resolved == resolveCollectionRoot(cliArgs.registry, options.collection)
                IN  IF Has(resolved, "error")
                    THEN LET out == outputCollectionOptionError(options, resolved.error)
                         IN  /\ cliStdout' = cliStdout \o out.stdout
                             /\ cliStderr' = cliStderr \o out.stderr
                             /\ cliExit' = out.exitCode
                             /\ cliPc' = "exited"
                             /\ UNCHANGED cwd
                    ELSE /\ cwd' = resolved.value
                         /\ cliPc' = "action"
                         /\ UNCHANGED <<cliExit, cliStdout, cliStderr>>
    /\ UNCHANGED <<cliArgs, actionCwd>>
    /\ UNCHANGED <<execVars, pureVars, runVars, regVars, impVars, watchVars>>

\* The action of the command starts, in the working directory of the
\* process.
CommandAction ==
    /\ cliPc = "action"
    /\ actionCwd' = <<cwd>>
    /\ cliPc' = "ran"
    /\ UNCHANGED <<cliArgs, cliExit, cliStdout, cliStderr, cwd>>
    /\ UNCHANGED <<execVars, pureVars, runVars, regVars, impVars, watchVars>>

NextCli == PreAction \/ CommandAction

SpecCli == InitCli /\ [][NextCli]_vars

(***************************************************************************)
(* import csv, import json  (commands/import.ts)                           *)
(*                                                                         *)
(* A CSV record and a JSON entry are sequences of [k, v] in column or key  *)
(* order; the values are tagged, and a CSV value is always a [str].  The   *)
(* file is                                                                 *)
(* [missing |-> TRUE], [records |-> rs] for what csv-parse or JSON.parse   *)
(* makes of it, [invalid |-> TRUE] for text JSON.parse throws on, or       *)
(* [value |-> v] for JSON that is no array.                                *)
(***************************************************************************)

S_importPrefix == <<"i", "m", "p", "o", "r", "t", "-">>

S_mdSuffix == <<".", "m", "d">>

S_false == <<"f", "a", "l", "s", "e">>

S_created == <<"c", "r", "e", "a", "t", "e", "d">>

S_failed == <<"f", "a", "i", "l", "e", "d">>

S_dryTag == <<" ", "(", "d", "r", "y", " ", "r", "u", "n", ")">>

S_wouldCreate == <<"W", "o", "u", "l", "d", " ", "c", "r", "e", "a", "t", "e", " ">>

S_createdLine == <<"C", "r", "e", "a", "t", "e", "d", " ">>

S_fileWord == <<" ", "f", "i", "l", "e">>

S_failedSuffix == <<" ", "f", "a", "i", "l", "e", "d">>

\* /^-?\d+$/
IsIntegerText(value) ==
    LET digits == IF value # <<>> /\ Head(value) = "-" THEN Tail(value) ELSE value
    IN  digits # <<>> /\ \A i \in DOMAIN digits : digits[i] \in Range(Digits)

\* /^-?\d+\.\d+$/
IsDecimalText(value) ==
    LET digits == IF value # <<>> /\ Head(value) = "-" THEN Tail(value) ELSE value
    IN  \E d \in DOMAIN digits :
           /\ digits[d] = "."
           /\ 1 < d /\ d < Len(digits)
           /\ \A i \in DOMAIN digits : i # d => digits[i] \in Range(Digits)

RECURSIVE digitsToNumber(_)
digitsToNumber(digits) ==
    IF digits = <<>> THEN 0
    ELSE 10 * digitsToNumber(SubSeq(digits, 1, Len(digits) - 1))
         + (CHOOSE n \in 0..9 : Digits[n + 1] = digits[Len(digits)])

\* parseInt(value, 10), for a value of the form -?\d+
parseInt(value) ==
    IF Head(value) = "-" THEN 0 - digitsToNumber(Tail(value)) ELSE digitsToNumber(value)

\* coerceValue; a decimal is kept as [float |-> text], the number parseFloat
\* reads from that text.
coerceValue(value) ==
    IF value = S_true THEN [bool |-> TRUE]
    ELSE IF value = S_false THEN [bool |-> FALSE]
    ELSE IF IsIntegerText(value) THEN [num |-> parseInt(value)]
    ELSE IF IsDecimalText(value) THEN [float |-> value]
    ELSE [str |-> value]

\* `import-${i + 1}.md`, for the TLA+ index i = i + 1
defaultImportPath(i) == S_importPrefix \o numberToString(i) \o S_mdSuffix

\* The first value of a key in a record, <<>> when it has none.
recordMember(record, key) ==
    IF \E j \in DOMAIN record : record[j].k = key
    THEN <<record[CHOOSE j \in DOMAIN record : record[j].k = key].v>>
    ELSE <<>>

\* record[pathField] ?? default (csv), entry.path ?? default (json)
importPath(kind, record, i, pathField) ==
    LET given == recordMember(record, IF kind = "csv" THEN pathField ELSE S_path)
    IN  IF given = <<>> \/ given[1] = NullValue THEN defaultImportPath(i)
        ELSE given[1].str

RECURSIVE withoutKey(_, _)
withoutKey(record, key) ==
    IF record = <<>> THEN <<>>
    ELSE IF Head(record).k = key THEN withoutKey(Tail(record), key)
    ELSE <<Head(record)>> \o withoutKey(Tail(record), key)

\* The front matter of the file to create.
importFrontmatter(kind, record, pathField) ==
    IF kind = "csv"
    THEN LET rest == withoutKey(record, pathField)
         IN  [j \in DOMAIN rest |-> [k |-> rest[j].k, v |-> coerceValue(rest[j].v.str)]]
    ELSE LET sub == recordMember(record, <<"f", "r", "o", "n", "t", "m", "a", "t", "t", "e", "r">>)
         IN  IF sub # <<>> /\ "object" \in DOMAIN sub[1] THEN sub[1].object
             ELSE withoutKey(record, S_path)

\* A variant of countRecord that counts a failure as nothing.
countRecord_failureDropped(result, filePath, createResult) ==
    IF Has(createResult, "error")
    THEN result
    ELSE [result EXCEPT !.created = @ + 1,
                        !.files = Append(@, [path |-> filePath, status |-> "created"])]

\* The update of `result` after one record: createResult is what
\* collection.create answered, <<>> in a dry run.
countRecord(result, filePath, createResult) ==
    IF Has(createResult, "error")
    THEN [result EXCEPT !.failed = @ + 1,
                        !.files = Append(@, [path |-> filePath, status |-> "failed",
                                             error |-> createResult.error.message])]
    ELSE [result EXCEPT !.created = @ + 1,
                        !.files = Append(@, [path |-> filePath, status |-> "created"])]

\* The lines outputResult writes.
resultLines(result, fmt) ==
    IF fmt = "json" THEN <<[json |-> result]>>
    ELSE [j \in DOMAIN result.files |->
            IF result.files[j].status = "created"
            THEN [text |-> <<" ", " ", "+", " ">> \o result.files[j].path
                           \o (IF result.dry_run THEN S_dryTag ELSE S_empty)]
            ELSE [text |-> <<" ", " ", "x", " ">> \o result.files[j].path \o <<":", " ">>
                           \o result.files[j].error]]
         \o <<[text |-> S_empty]>>
         \o <<[text |-> (IF result.dry_run THEN S_wouldCreate ELSE S_createdLine)
                        \o numberToString(result.created) \o S_fileWord
                        \o (IF result.created # 1 THEN <<"s">> ELSE S_empty)
                        \o (IF ~result.dry_run /\ result.failed > 0
                            THEN <<",", " ">> \o numberToString(result.failed) \o S_failedSuffix
                            ELSE S_empty)]>>

\* closeAndExit(collection, code): the code the process ends with.
closeAndExit(code) == code

\* How many records a file holds at most.
MaxRecords == 2

CsvRecords ==
    { <<[k |-> S_path, v |-> [str |-> <<"a", ".", "m", "d">>]],
        [k |-> <<"n">>, v |-> [str |-> <<"-", "1", "2">>]]>>,
      <<[k |-> <<"t">>, v |-> [str |-> S_true]],
        [k |-> <<"p">>, v |-> [str |-> <<"b", ".", "m", "d">>]]>>,
      <<[k |-> <<"n">>, v |-> [str |-> <<"1", ".", "5">>]]>> }

JsonEntries ==
    { <<[k |-> S_path, v |-> [str |-> <<"a", ".", "m", "d">>]],
        [k |-> <<"f", "r", "o", "n", "t", "m", "a", "t", "t", "e", "r">>,
         v |-> [object |-> <<[k |-> <<"t">>, v |-> [num |-> 1]]>>]]>>,
      <<[k |-> <<"t">>, v |-> [str |-> <<"x">>]], [k |-> S_path, v |-> NullValue]>>,
      <<[k |-> <<"n">>, v |-> [num |-> 2]]>> }

ImportFiles(kind) ==
    {[missing |-> TRUE]}
    \cup {[records |-> rs] : rs \in SeqsOf(IF kind = "csv" THEN CsvRecords ELSE JsonEntries,
                                           0, MaxRecords)}
    \cup (IF kind = "json" THEN {[invalid |-> TRUE], [value |-> [object |-> <<>>]]} ELSE {})

ImportOptions ==
    {d @@ f @@ p : d \in {<<>>, [dryRun |-> TRUE]},
                   f \in {[format |-> "text"], [format |-> "json"]},
                   p \in {<<>>, [pathField |-> <<"p">>]}}

ImportInputs ==
    {[kind |-> kind, file |-> file, options |-> options, openResult |-> o] :
        kind \in {"csv"}, file \in ImportFiles("csv"), options \in ImportOptions, o \in OpenResults}
    \cup
    {[kind |-> kind, file |-> file, options |-> options, openResult |-> o] :
        kind \in {"json"}, file \in ImportFiles("json"),
        options \in {x \in ImportOptions : ~Has(x, "pathField")}, o \in OpenResults}

\* What collection.create answers.
CreateResults ==
    { [path |-> "created"],
      [error |-> [code |-> "path_conflict", message |-> <<"e", "x", "i", "s", "t", "s">>]] }

InitImport ==
    /\ ExecIdle
    /\ PureIdle
    /\ RunIdle
    /\ RegIdle
    /\ CliIdle
    /\ WatchIdle
    /\ impArgs \in ImportInputs
    /\ impPc = "start"
    /\ impIdx = 0
    /\ impResult = <<>>
    /\ impCreates = <<>>
    /\ impExit = -1
    /\ impStdout = <<>>
    /\ impStderr = <<>>

\* A failure before the loop: the error written, the exit code.
importFailure(options, error, code) ==
    [stdout |-> IF options.format = "json" THEN <<[json |-> [error |-> error]]>> ELSE <<>>,
     stderr |-> IF options.format = "json" THEN <<>> ELSE <<[errorLine |-> error]>>,
     exitCode |-> code]

\* The action up to the loop: open the collection, read the file, make the
\* result.
ImportStart ==
    /\ impPc = "start"
    /\ LET options == impArgs.options
           file == impArgs.file
           failure ==
               IF Has(impArgs.openResult, "error")
               THEN <<importFailure(options, impArgs.openResult.error, 3)>>
               ELSE IF Has(file, "missing")
               THEN <<importFailure(options, [code |-> "file_not_found"], closeAndExit(4))>>
               ELSE IF Has(file, "invalid")
               THEN <<importFailure(options, [code |-> "invalid_json"], closeAndExit(1))>>
               ELSE IF Has(file, "value")
               THEN <<importFailure(options, [code |-> "invalid_format"], closeAndExit(1))>>
               ELSE <<>>
       IN  IF failure # <<>>
           THEN /\ impStdout' = impStdout \o failure[1].stdout
                /\ impStderr' = impStderr \o failure[1].stderr
                /\ impExit' = failure[1].exitCode
                /\ impPc' = "exited"
                /\ UNCHANGED <<impIdx, impResult>>
           ELSE /\ impResult' = [total |-> Len(file.records), created |-> 0, failed |-> 0,
                                 dry_run |-> Has(options, "dryRun"), files |-> <<>>]
                /\ impIdx' = 1
                /\ impPc' = "loop"
                /\ UNCHANGED <<impExit, impStdout, impStderr>>
    /\ UNCHANGED <<impArgs, impCreates>>
    /\ UNCHANGED <<execVars, pureVars, runVars, regVars, cliVars, watchVars>>

\* One turn of the loop.
ImportRecord ==
    /\ impPc = "loop"
    /\ impIdx <= Len(impArgs.file.records)
    /\ LET options == impArgs.options
           record == impArgs.file.records[impIdx]
           pathField == IF Has(options, "pathField") THEN options.pathField ELSE S_path
           filePath == importPath(impArgs.kind, record, impIdx, pathField)
           frontmatter == importFrontmatter(impArgs.kind, record, pathField)
       IN  IF Has(options, "dryRun")
           THEN /\ impResult' = countRecord(impResult, filePath, <<>>)
                /\ UNCHANGED impCreates
           ELSE \E createResult \in CreateResults :
                   /\ impCreates' = Append(impCreates,
                                           [request |-> [path |-> filePath,
                                                         frontmatter |-> frontmatter],
                                            response |-> createResult])
                   /\ impResult' = countRecord(impResult, filePath, createResult)
    /\ impIdx' = impIdx + 1
    /\ UNCHANGED <<impArgs, impPc, impExit, impStdout, impStderr>>
    /\ UNCHANGED <<execVars, pureVars, runVars, regVars, cliVars, watchVars>>

\* outputResult
ImportOutput ==
    /\ impPc = "loop"
    /\ impIdx > Len(impArgs.file.records)
    /\ impStdout' = impStdout \o resultLines(impResult, impArgs.options.format)
    /\ impExit' = closeAndExit(IF impResult.failed > 0 THEN 1 ELSE 0)
    /\ impPc' = "exited"
    /\ UNCHANGED <<impArgs, impIdx, impResult, impCreates, impStderr>>
    /\ UNCHANGED <<execVars, pureVars, runVars, regVars, cliVars, watchVars>>

NextImport == ImportStart \/ ImportRecord \/ ImportOutput

SpecImport == InitImport /\ [][NextImport]_vars

(***************************************************************************)
(* watch  (commands/watch.ts)                                              *)
(*                                                                         *)
(* Time is in milliseconds.  A timer is [id, due, event, path]: the id is  *)
(* the number of the handleChange call that set it, and event and path are *)
(* what its callback closes over.  A timer fires when it is due: time does *)
(* not pass over a timer that is set.  An output line carries the number   *)
(* of the handleChange call it reports in `of`, 0 when it reports none;    *)
(* the time stamp of a line is left out, its place in the output says when *)
(* it was written.                                                         *)
(***************************************************************************)

\* The delay of setTimeout in handleChange.
debounceDelay == 300

\* How many file events the watcher sends at most.
MaxEvents == 3

\* How many steps of time pass at most.
MaxTicks == 3

\* The lengths of the steps of time.
TimeSteps == {150}

\* The events the watcher is subscribed to, with the paths it sends.
FileEvents ==
    { [event |-> "add", path |-> <<"a", ".", "m", "d">>],
      [event |-> "change", path |-> <<"b", ".", "m", "d">>],
      [event |-> "unlink", path |-> <<"a", ".", "m", "d">>] }

WatchOptions ==
    { [format |-> "text"],
      [format |-> "json"],
      [format |-> "text", validate |-> TRUE],
      [format |-> "json", query |-> <<"x">>],
      [format |-> "json", validate |-> TRUE, query |-> <<"x">>] }

\* What collection.validate settles to.
ValidateResults ==
    {[valid |-> TRUE, errors |-> 0], [valid |-> FALSE, errors |-> 1], [thrown |-> TRUE]}

\* What collection.query settles to.
QueryResults == {[count |-> 1], [thrown |-> TRUE]}

\* clearTimeout(timer) on the timers that are set.
clearTimeout(timers, timer) == {t \in timers : t.id # timer}

\* A variant of handleChange that leaves the timer of the last call set.
handleChange_noCancel(timers, timer, id, event, filePath, now) ==
    [timers |-> timers \cup {[id |-> id, due |-> now + debounceDelay,
                              event |-> event, path |-> filePath]},
     debounceTimer |-> id]

\* handleChange(event, filePath), as call number id at time now: the timers
\* that are set, and debounceTimer, after it.
handleChange(timers, timer, id, event, filePath, now) ==
    LET cleared == IF timer # 0 THEN clearTimeout(timers, timer) ELSE timers
    IN  [timers |-> cleared \cup {[id |-> id, due |-> now + debounceDelay,
                                   event |-> event, path |-> filePath]},
         debounceTimer |-> id]

\* The line the timer callback writes first.
reportLine(fmt, event, filePath) ==
    IF fmt = "json"
    THEN [json |-> [event |-> event, path |-> filePath]]
    ELSE [tag |-> IF event = "add" THEN "+" ELSE IF event = "unlink" THEN "-" ELSE "~",
          path |-> filePath]

validateLine(fmt, result) ==
    IF fmt = "json"
    THEN [json |-> [event |-> "validate", valid |-> result.valid, issues |-> result.errors]]
    ELSE IF result.valid THEN [text |-> "valid"]
    ELSE [errors |-> result.errors]

queryLine(fmt, result) ==
    IF fmt = "json"
    THEN [json |-> [event |-> "query", count |-> result.count]]
    ELSE [query |-> result.count]

startLine(fmt, dir) ==
    IF fmt = "json" THEN [json |-> [event |-> "start", cwd |-> dir]]
    ELSE [watching |-> dir]

stopLine(fmt) ==
    IF fmt = "json" THEN [json |-> [event |-> "stop"]]
    ELSE [text |-> "stopped"]

\* The awaits a timer callback still has before it, after its report.
awaitsOf(options) ==
    (IF Has(options, "validate") THEN <<"validate">> ELSE <<>>)
    \o (IF Has(options, "query") THEN <<"query">> ELSE <<>>)

InitWatch ==
    /\ ExecIdle
    /\ PureIdle
    /\ RunIdle
    /\ RegIdle
    /\ CliIdle
    /\ ImpIdle
    /\ watchArgs \in {[options |-> o, openResult |-> r] : o \in WatchOptions, r \in OpenResults}
    /\ watchPc = "start"
    /\ watchNow = 0
    /\ debounceTimer = 0
    /\ watchTimers = {}
    /\ watchCallbacks = {}
    /\ watchEvents = <<>>
    /\ watchSignals = <<>>
    /\ watchOut = <<>>
    /\ watchExit = -1

otherVars == <<execVars, pureVars, runVars, regVars, cliVars, impVars>>

\* The action up to the registration of the signal handlers.
WatchStart ==
    /\ watchPc = "start"
    /\ IF Has(watchArgs.openResult, "error")
       THEN /\ watchOut' = Append(watchOut, [line |-> [error |-> watchArgs.openResult.error,
                                                      format |-> watchArgs.options.format],
                                            of |-> 0])
            /\ watchExit' = 3
            /\ watchPc' = "exited"
       ELSE /\ watchOut' = Append(watchOut, [line |-> startLine(watchArgs.options.format, P_cwd),
                                            of |-> 0])
            /\ watchPc' = "watching"
            /\ UNCHANGED watchExit
    /\ UNCHANGED <<watchArgs, watchNow, debounceTimer, watchTimers, watchCallbacks,
                   watchEvents, watchSignals>>
    /\ UNCHANGED otherVars

\* The watcher sends add, change or unlink: handleChange runs.  While
\* watcher.close() is pending the watcher may still send events.
FileEvent ==
    /\ watchPc \in {"watching", "closing"}
    /\ Len(watchEvents) < MaxEvents
    /\ \E e \in FileEvents :
          LET id == Len(watchEvents) + 1
              after == handleChange(watchTimers, debounceTimer, id, e.event, e.path, watchNow)
          IN  /\ watchTimers' = after.timers
              /\ debounceTimer' = after.debounceTimer
              /\ watchEvents' = Append(watchEvents,
                                       [event |-> e.event, path |-> e.path, time |-> watchNow])
    /\ UNCHANGED <<watchArgs, watchPc, watchNow, watchCallbacks, watchSignals, watchOut,
                   watchExit>>
    /\ UNCHANGED otherVars

\* Time passes, up to the next timer that is due.
Tick ==
    /\ watchPc \in {"watching", "closing"}
    /\ \E d \in TimeSteps :
          /\ watchNow + d <= MaxTicks * d
          /\ \A t \in watchTimers : t.due >= watchNow + d
          /\ watchNow' = watchNow + d
    /\ UNCHANGED <<watchArgs, watchPc, debounceTimer, watchTimers, watchCallbacks,
                   watchEvents, watchSignals, watchOut, watchExit>>
    /\ UNCHANGED otherVars

\* A timer fires: its callback writes the report and runs to its first await.
TimerFires ==
    /\ watchPc \in {"watching", "closing"}
    /\ \E t \in watchTimers :
          /\ t.due <= watchNow
          /\ watchTimers' = watchTimers \ {t}
          /\ watchOut' = Append(watchOut,
                                [line |-> reportLine(watchArgs.options.format, t.event, t.path),
                                 of |-> t.id])
          /\ watchCallbacks' =
                IF awaitsOf(watchArgs.options) = <<>> THEN watchCallbacks
                ELSE watchCallbacks \cup {[id |-> t.id, awaits |-> awaitsOf(watchArgs.options)]}
    /\ UNCHANGED <<watchArgs, watchPc, watchNow, debounceTimer, watchEvents, watchSignals,
                   watchExit>>
    /\ UNCHANGED otherVars

\* collection.validate() or collection.query() settles and the callback
\* goes on to its next await or to its end.
CallbackResumes ==
    /\ watchPc \in {"watching", "closing"}
    /\ \E c \in watchCallbacks :
          \E result \in (IF Head(c.awaits) = "validate" THEN ValidateResults ELSE QueryResults) :
             /\ watchOut' =
                   IF Has(result, "thrown") THEN watchOut
                   ELSE Append(watchOut,
                               [line |-> IF Head(c.awaits) = "validate"
                                         THEN validateLine(watchArgs.options.format, result)
                                         ELSE queryLine(watchArgs.options.format, result),
                                of |-> 0])
             /\ watchCallbacks' =
                   (watchCallbacks \ {c})
                   \cup (IF Tail(c.awaits) = <<>> THEN {}
                         ELSE {[id |-> c.id, awaits |-> Tail(c.awaits)]})
    /\ UNCHANGED <<watchArgs, watchPc, watchNow, debounceTimer, watchTimers, watchEvents,
                   watchSignals, watchExit>>
    /\ UNCHANGED otherVars

\* cleanup, up to the call of watcher.close(): the timers that are set.
cleanup(timers, timer) == IF timer # 0 THEN clearTimeout(timers, timer) ELSE timers

\* SIGINT or SIGTERM arrives.
Signal ==
    /\ watchPc = "watching"
    /\ watchSignals' = Append(watchSignals, [time |-> watchNow, after |-> Len(watchEvents)])
    /\ watchTimers' = cleanup(watchTimers, debounceTimer)
    /\ watchPc' = "closing"
    /\ UNCHANGED <<watchArgs, watchNow, debounceTimer, watchCallbacks, watchEvents, watchOut,
                   watchExit>>
    /\ UNCHANGED otherVars

\* watcher.close() resolves: the stop line and process.exit(0).
WatcherClosed ==
    /\ watchPc = "closing"
    /\ watchOut' = Append(watchOut, [line |-> stopLine(watchArgs.options.format),
                                     of |-> 0])
    /\ watchExit' = 0
    /\ watchPc' = "exited"
    /\ UNCHANGED <<watchArgs, watchNow, debounceTimer, watchTimers, watchCallbacks,
                   watchEvents, watchSignals>>
    /\ UNCHANGED otherVars

NextWatch ==
    WatchStart \/ FileEvent \/ Tick \/ TimerFires \/ CallbackResumes \/ Signal \/ WatcherClosed

SpecWatch == InitWatch /\ [][NextWatch]_vars

\* The positions of the output lines that are view headers.
HeaderLines == {i \in DOMAIN stdout : "style" \in DOMAIN stdout[i] /\ stdout[i].style = "bold"}

\* The positions of the output lines that are a table or its placeholder.
BodyLines ==
    {i \in DOMAIN stdout : \/ "table" \in DOMAIN stdout[i]
                           \/ /\ "style" \in DOMAIN stdout[i]
                              /\ stdout[i].style = "dim"
                              /\ stdout[i].text = S_noResults}

\* The k-th smallest member of a set of positions.
Nth(positions, k) ==
    CHOOSE i \in positions : Cardinality({j \in positions : j < i}) = k - 1

\* The text of the header of a view.
HeaderText(view) ==
    S_rule \o <<" ">>
    \o (IF "name" \in DOMAIN view THEN view.name ELSE view.type \o S_viewSuffix)
    \o <<" ">> \o S_rule

\* C21: printed as a table, a header line naming the view (its name, or
\* "<kind> view") comes before each view's block exactly when more than one
\* result is printed, and no header at all for a single result; the block
\* of a result without rows is the "No results" placeholder, that of a
\* result with rows a table.
C21_TableHeaderIffSeveralViews ==
    (pc = "printed" /\ format = "table") =>
        /\ Cardinality(BodyLines) = Len(results)
        /\ Cardinality(HeaderLines) = IF Len(results) > 1 THEN Len(results) ELSE 0
        /\ \A k \in DOMAIN results :
              /\ ("table" \in DOMAIN stdout[Nth(BodyLines, k)]) <=> (results[k].rows # <<>>)
              /\ Len(results) > 1 =>
                    /\ stdout[Nth(HeaderLines, k)].text = HeaderText(results[k].view)
                    /\ Nth(HeaderLines, k) < Nth(BodyLines, k)
                    /\ k > 1 => Nth(BodyLines, k - 1) < Nth(HeaderLines, k)

C21_Witness ==
    /\ pc = "printed"
    /\ format = "table"
    /\ Len(results) = 2
    /\ results[1].rows = <<>>
    /\ results[2].rows # <<>>
    /\ "name" \notin DOMAIN results[1].view
    /\ Len(stdout) >= 5
    /\ stdout[1] = [text |-> HeaderText(results[1].view), style |-> "bold"]
    /\ stdout[2] = [text |-> S_noResults, style |-> "dim"]
    /\ stdout[3] = [text |-> S_empty]
    /\ "table" \in DOMAIN stdout[5]

\* The views of the document, the synthetic table view when it has none.
DocumentViews == IF "views" \in DOMAIN baseFile THEN baseFile.views ELSE <<[type |-> S_table]>>

\* The positions of the document views named as the caller asked.
NamedAsAsked == {i \in DOMAIN DocumentViews : SameNameIgnoringCase(DocumentViews[i], opts.viewName)}

\* C27: when the view name given equals the name of some view ignoring
\* case, the invocation runs one view only, the first so named in document
\* order (at most one query, issued for it), and what it returns is one
\* result, of that view; a view run under a view name is never an unnamed
\* one.
C27_FirstViewOfThatNameRunsAlone ==
    (pc \notin {"idle", "entry"} /\ ViewNameGiven(opts) /\ NamedAsAsked # {}) =>
        LET first == CHOOSE i \in NamedAsAsked : \A j \in NamedAsAsked : i <= j
        IN  /\ views = <<DocumentViews[first]>>
            /\ "name" \in DOMAIN views[1]
            /\ Len(queries) <= 1
            /\ \A q \in DOMAIN queries : QueriedView(q) = DocumentViews[first]
            /\ pc \in {"returned", "printed"} =>
                  /\ Len(outcome.returned) = 1
                  /\ outcome.returned[1].view = DocumentViews[first]

C27_Witness ==
    /\ pc = "returned"
    /\ "viewName" \in DOMAIN opts
    /\ opts.viewName = <<"A", "L", "P", "H", "A">>
    /\ "views" \in DOMAIN baseFile
    /\ Len(baseFile.views) = 2
    /\ "name" \in DOMAIN baseFile.views[1]
    /\ baseFile.views[1].name = <<"a", "l", "p", "h", "a">>
    /\ "name" \in DOMAIN baseFile.views[2]
    /\ baseFile.views[2].name = <<"A", "l", "p", "h", "a">>
    /\ Len(queries) = 1
    /\ Len(outcome.returned) = 1
    /\ outcome.returned[1].view = baseFile.views[1]

\* No two entries of a registry have aliases equal ignoring case or the
\* same path.
NoDuplicates(file) ==
    \A i, j \in DOMAIN file :
        i # j => /\ toLowerCase(file[i].alias) # toLowerCase(file[j].alias)
                 /\ file[i].path # file[j].path

\* The positions of the entries of a registry whose alias is the one given,
\* spaces around it and case set aside.
Aliased(file, alias) == {i \in DOMAIN file : toLowerCase(file[i].alias) = toLowerCase(trim(alias))}

\* A registry operation has just settled.
Settled == regClock' # regClock

\* C23: with the operations run one at a time the registry never holds two
\* entries with aliases equal ignoring case or with the same path; an add
\* of a collection under an alias the registry has fails with alias_exists,
\* an add under a new alias of a path the registry has fails with
\* path_exists, and a rename of a registered alias onto the alias of
\* another entry fails with alias_exists.
C23_RegistryKeepsAliasesAndPathsUnique ==
    [][/\ NoDuplicates(registryFile')
       /\ Settled =>
            LET call == regLast'.call
                addsCollection == /\ call.op = "add"
                                  /\ trim(call.alias) # <<>>
                                  /\ "value" \in DOMAIN resolveCollectionPath(call.path)
            IN  /\ (addsCollection /\ Aliased(registryFile, call.alias) # {})
                      => regLast'.outcome = [error |-> "alias_exists"]
                /\ (/\ addsCollection
                    /\ Aliased(registryFile, call.alias) = {}
                    /\ \E i \in DOMAIN registryFile :
                          registryFile[i].path = resolveCollectionPath(call.path).value)
                      => regLast'.outcome = [error |-> "path_exists"]
                /\ (/\ call.op = "rename"
                    /\ Aliased(registryFile, call.alias) # {}
                    /\ Aliased(registryFile, call.newAlias) # {}
                    /\ Aliased(registryFile, call.newAlias) # Aliased(registryFile, call.alias))
                      => regLast'.outcome = [error |-> "alias_exists"]]_vars

C23_Witness ==
    /\ Len(registryFile) = 2
    /\ registryFile[1].alias = <<"a">>
    /\ registryFile[2].alias = <<"b">>
    /\ regLast # <<>>
    /\ regLast.call.op = "add"
    /\ regLast.call.alias = <<" ", "A", " ">>
    /\ regLast.outcome = [error |-> "alias_exists"]

\* C24: a rename that succeeds keeps the number of entries and the path and
\* added_at of the entry renamed, leaves every other entry as it was, makes
\* showCollection find that entry under the new alias and fail with
\* collection_not_found under the old one; a remove that succeeds takes out
\* the one entry of that alias (ignoring case), leaves the others as they
\* were, and makes showCollection fail with collection_not_found for it.
C24_RenameAndRemoveTouchOneEntry ==
    [][(Settled /\ regLast'.call.op \in {"rename", "remove"} /\ "entry" \in DOMAIN regLast'.outcome) =>
          LET call == regLast'.call
              hit == Aliased(registryFile, call.alias)
              before == registryFile[CHOOSE i \in hit : TRUE]
          IN  /\ Cardinality(hit) = 1
              /\ showCollection(registryFile', call.alias) = [error |-> "collection_not_found"]
              /\ IF call.op = "remove"
                 THEN /\ Len(registryFile') = Len(registryFile) - 1
                      /\ Range(registryFile') = Range(registryFile) \ {before}
                 ELSE /\ Len(registryFile') = Len(registryFile)
                      /\ "entry" \in DOMAIN showCollection(registryFile', call.newAlias)
                      /\ LET after == showCollection(registryFile', call.newAlias).entry
                         IN  /\ after.alias = trim(call.newAlias)
                             /\ after.path = before.path
                             /\ after.added_at = before.added_at
                             /\ Range(registryFile') \ {after} = Range(registryFile) \ {before}]_vars

C24_Witness ==
    /\ Len(registryFile) = 2
    /\ regLast # <<>>
    /\ regLast.call.op = "rename"
    /\ regLast.call.alias = <<" ", "A", " ">>
    /\ "entry" \in DOMAIN regLast.outcome
    /\ regLast.outcome.entry.alias = <<"b">>
    /\ regLast.outcome.entry.added_at < regLast.outcome.entry.updated_at

\* C28: an operation that fails writes nothing: the entries of the registry
\* after it are those before it.
C28_FailedOperationWritesNothing ==
    [][(Settled /\ "error" \in DOMAIN regLast'.outcome) => registryFile' = registryFile]_vars

C28_Witness ==
    /\ Len(registryFile) = 1
    /\ regLast # <<>>
    /\ regLast.call.op = "add"
    /\ regLast.outcome = [error |-> "path_exists"]

\* C29: with the operations of two callers interleaved, an entry that an
\* add put into the registry stays there from one step to the next unless
\* the step is a remove or a rename of its alias that succeeds.
C29_AddedEntryStaysUnlessTargeted ==
    [][\A i \in DOMAIN registryFile :
          \/ registryFile[i] \in Range(registryFile')
          \/ \E p \in Procs :
                /\ regProcs[p] # <<>>
                /\ regProcs'[p] = <<>>
                /\ regProcs[p].call.op \in {"remove", "rename"}
                /\ "entry" \in DOMAIN regLast'.outcome
                /\ toLowerCase(trim(regProcs[p].call.alias)) = toLowerCase(registryFile[i].alias)]_vars

\* Whether the command line names `init` or a command of the collections
\* group, under either name of the group.
SkippedCommand ==
    \/ cliArgs.command[Len(cliArgs.command)] = <<"i", "n", "i", "t">>
    \/ cliArgs.command[1] \in {<<"c", "o", "l", "l", "e", "c", "t", "i", "o", "n", "s">>,
                               <<"c", "o", "l", "l", "e", "c", "t", "i", "o", "n">>}

\* The entries of the registry found whose alias is the one given with
\* --collection, spaces around it and case set aside.
EntriesAsked == Aliased(cliArgs.registry, cliArgs.options.collection)

\* C25: for `init` and the collections group the --collection option
\* changes nothing: the hook writes nothing, ends nothing and the action
\* runs where the process started.  For any other command an alias the
\* registry does not hold ends the process in the hook with exit code 1 and
\* the error code collection_not_found, and the action does not run; an
\* alias that resolves makes the action run in the directory registered for
\* it.
C25_CollectionOptionResolvedBeforeAction ==
    (cliPc \in {"action", "ran", "exited"} /\ "collection" \in DOMAIN cliArgs.options
        /\ trim(cliArgs.options.collection) # <<>>) =>
        IF SkippedCommand
        THEN /\ cliPc # "exited"
             /\ cwd = P_cwd
             /\ cliStdout = <<>> /\ cliStderr = <<>>
             /\ cliPc = "ran" => actionCwd = <<P_cwd>>
        ELSE IF EntriesAsked = {}
        THEN /\ cliPc = "exited"
             /\ cliExit = 1
             /\ actionCwd = <<>>
             /\ cliStdout \o cliStderr \in
                  {<<[json |-> [error |-> [code |-> "collection_not_found"]]]>>,
                   <<[errorLine |-> [code |-> "collection_not_found"]]>>}
        ELSE /\ cliPc = "exited" => actionCwd = <<>>
             /\ cliPc = "ran" =>
                  actionCwd = <<cliArgs.registry[CHOOSE i \in EntriesAsked : TRUE].path>>

C25_Witness ==
    /\ cliPc = "exited"
    /\ cliArgs.command = <<<<"q", "u", "e", "r", "y">>>>
    /\ cliArgs.options = [format |-> "json", collection |-> <<"z">>]
    /\ cliArgs.registry # <<>>
    /\ cliExit = 1
    /\ cliStdout = <<[json |-> [error |-> [code |-> "collection_not_found"]]]>>
    /\ actionCwd = <<>>

\* The answers of collection.create that were errors.
FailedCreates == {j \in DOMAIN impCreates : "error" \in DOMAIN impCreates[j].response}

Reports(k) == {j \in DOMAIN watchOut : watchOut[j].of = k}

\* Call k was followed by another less than the delay after it.
FollowedInBurst(k) ==
    k < Len(watchEvents) /\ watchEvents[k + 1].time - watchEvents[k].time < debounceDelay

\* Call k was followed by none until after its delay, and by no signal until then.
LeftToFire(k) ==
    /\ IF k < Len(watchEvents)
       THEN watchEvents[k + 1].time > watchEvents[k].time + debounceDelay
       ELSE watchNow > watchEvents[k].time + debounceDelay
    /\ \A j \in DOMAIN watchSignals :
          watchSignals[j].after = k => watchSignals[j].time > watchEvents[k].time + debounceDelay

\* C30: an event that another follows in less than 300 ms is never
\* reported and no event is reported twice, while the last event of a burst
\* is reported once 300 ms have passed without an event or a signal; at most
\* one timer is set at a time; after a signal, and until a further event,
\* no timer is set; and a process that was stopped by a signal ends with
\* code 0 and the stop line as its last output.
C30_DebounceReportsLastOfBurst ==
    /\ \A k \in DOMAIN watchEvents :
          /\ FollowedInBurst(k) => Reports(k) = {}
          /\ Cardinality(Reports(k)) <= 1
          /\ LeftToFire(k) => Reports(k) # {}
          /\ \A j \in Reports(k) :
                LET line == watchOut[j].line
                    said == IF "json" \in DOMAIN line THEN line.json ELSE line
                IN  /\ said.path = watchEvents[k].path
                    /\ "json" \in DOMAIN line => said.event = watchEvents[k].event
    /\ Cardinality(watchTimers) <= 1
    /\ (watchSignals # <<>> /\ watchSignals[Len(watchSignals)].after = Len(watchEvents))
          => watchTimers = {}
    /\ (watchPc = "exited" /\ watchSignals # <<>>) =>
          /\ watchExit = 0
          /\ watchOut[Len(watchOut)].line = stopLine(watchArgs.options.format)

C30_Witness ==
    /\ watchPc = "exited"
    /\ Len(watchEvents) = 3
    /\ FollowedInBurst(1)
    /\ watchEvents[1].path # watchEvents[2].path
    /\ Reports(1) = {}
    /\ Reports(2) # {}
    /\ watchSignals[1].after = 3
    /\ watchSignals[1].time < watchEvents[3].time + debounceDelay
    /\ Reports(3) = {}

====
